---- MODULE Spec2Model ----
(***************************************************************************)
(* Execution resource governor of nanoreth.                                *)
(*                                                                         *)
(*   SpecGuard     src/src/node/storage/timeout.rs  DatabaseTimeoutWrapper *)
(*   SpecDispatch  src/src/node/rpc/timeout.rs      TimeoutWrapper         *)
(*                 src/src/node/rpc/chunked_execution.rs                   *)
(*   SpecEvm       src/crates/ethereum/evm/src/lib.rs  precompile sourcing *)
(*   SpecTimeout   calculate_timeout taken alone                           *)
(*   SpecPath      collect_s3_block's path computation taken alone         *)
(*   SpecGas       src/bin/reth/src/block_ingest_test.rs  system-tx gas    *)
(*   SpecForward   src/src/call_forwarder.rs        CallForwarderExt       *)
(*   SpecGuardFair SpecGuard under a fair scheduler                        *)
(*                                                                         *)
(* The components share no state, so each has its own specification over   *)
(* the module's variables; the variables of the other components stay at   *)
(* their initial value.                                                    *)
(***************************************************************************)
EXTENDS Integers, Sequences, FiniteSets, TLC

VARIABLES
    \* ---- DatabaseTimeoutWrapper / DatabaseStats ----
    max_concurrent_operations,  \* DatabaseTimeoutWrapper.max_concurrent_operations
    active_connections,         \* DatabaseStats.active_connections
    total_operations,           \* DatabaseStats.total_operations
    timeout_operations,         \* DatabaseStats.timeout_operations
    successful_operations,      \* DatabaseStats.successful_operations
    op_pc,                      \* position of each task inside execute_*_with_timeout
    op_entry,                   \* which entry point the task called
    op_result,                  \* what the call returned to the task
    op_polled,                  \* whether `operation` was polled during the call
    op_released,                \* decrement_active calls made by the call's OperationGuard
    attempts,                   \* guarded calls begun so far
    \* ---- TimeoutWrapper + ChunkedExecutionEngine ----
    overflow_checks,            \* build profile: integer overflow panics (debug) or wraps (release)
    cfg,                        \* TimeoutWrapper fields and its ChunkedExecutionConfig
    d_pc,                       \* position inside call_with_timeout / estimate_gas_with_timeout
    d_method,                   \* "call" or "estimate"
    d_gas,                      \* request.gas as received (NoneGas when absent)
    d_result,                   \* what the dispatcher returned to its caller
    timeout_duration,           \* timeout_duration of the call at hand, in seconds
    e_pc,                       \* position of the raced future (direct call or chunk loop)
    e_outcome,                  \* output of the raced future, once it completed
    original_gas,               \* chunk loop: original_gas
    total_chunks,               \* chunk loop: total_chunks
    chunk_idx,                  \* chunk loop: chunk_idx
    chunk_gas,                  \* chunk loop: chunk_gas of the chunk in flight
    processed_gas,              \* chunk loop: processed_gas
    accumulated,                \* accumulated_result (call) / total_estimated_gas (estimate)
    exec_log,                   \* request.gas of every execution handed to eth_api in this call
    delays,                     \* durations slept between chunks in this call
    completed,                  \* executions of this call that eth_api has returned from
    exec_value,                 \* the value the latest successful execution returned
    d_request,                  \* request (but its gas), block_number and overrides as received
    exec_args,                  \* what every execution of this call was handed besides the gas
    \* ---- precompile sourcing (EVM factory) ----
    ingest_dir,                 \* HyperliquidEvmFactory.ingest_dir is Some
    shared_state,               \* HyperliquidEvmFactory.shared_state is Some
    precompiles_cache,          \* shared_state.precompiles_cache: height -> calls
    archive,                    \* files under the ingest directory: path -> content
    r_pc,                       \* position of each caller inside create_evm
    r_height,                   \* input.block_env.number of the caller's create_evm
    r_evm,                      \* what create_evm gave the caller
    consumed,                   \* heights taken from the channel and not re-populated since
    resolutions,                \* create_evm calls begun so far
    \* ---- calculate_timeout taken alone ----
    t_gas,                      \* gas_limit of the latest calculate_timeout
    t_result,                   \* the Duration it returned, in seconds
    \* ---- collect_s3_block's path taken alone ----
    p_height,                   \* height of the latest path computation
    p_path,                     \* <<f, s, height>> of "{ingest}/{f}/{s}/{height}.rmp.lz4"
    \* ---- system-transaction gas adjustment ----
    g_pc,                       \* position: in the loop over system_txs, done, or panicked
    g_receipts,                 \* cumulative_gas_used of each system tx's receipt (NoneGas: no receipt)
    g_idx,                      \* index of the next transaction of the loop
    original_gas_used,          \* block.header().gas_used()
    system_gas_used,            \* system_gas_used
    previous_cumulative_gas,    \* previous_cumulative_gas
    adjusted_gas_used,          \* adjusted_gas_used
    g_wrapped,                  \* an unsigned subtraction or addition of the loop wrapped around
    \* ---- CallForwarderExt ----
    f_pc,                       \* position of the forwarder's handler
    f_method,                   \* "call" or "estimate"
    f_block_number,             \* block_number as received
    f_result,                   \* what the handler returned
    upstream_requests,          \* every request sent through upstream_client
    local_calls                 \* every call made into the timeout wrapper

guardVars == <<max_concurrent_operations, active_connections, total_operations,
               timeout_operations, successful_operations, op_pc, op_entry,
               op_result, op_polled, op_released, attempts>>

dispatchVars == <<overflow_checks, cfg, d_pc, d_method, d_gas, d_result, timeout_duration, e_pc, e_outcome, original_gas,
                  total_chunks, chunk_idx, chunk_gas, processed_gas, accumulated,
                  exec_log, delays, completed, exec_value, d_request, exec_args>>

evmVars == <<ingest_dir, shared_state, precompiles_cache, archive, r_pc, r_height, r_evm,
             consumed, resolutions>>

calcVars == <<t_gas, t_result>>

pathVars == <<p_height, p_path>>

gasVars == <<g_pc, g_receipts, g_idx, original_gas_used, system_gas_used,
             previous_cumulative_gas, adjusted_gas_used, g_wrapped>>

forwardVars == <<f_pc, f_method, f_block_number, f_result, upstream_requests, local_calls>>

vars == <<guardVars, dispatchVars, evmVars, calcVars, pathVars, gasVars, forwardVars>>

\* ---------------------------------------------------------------- bounds
NumTasks == 2
MaxCeiling == 2
MaxAttempts == 4
\* the calls explored under a fair scheduler
FairAttempts == 3

Tasks == 1..NumTasks

\* =====================================================================
\* DatabaseTimeoutWrapper (src/src/node/storage/timeout.rs)
\* =====================================================================

EntryPoints == {"execute_with_timeout", "execute_provider_with_timeout"}

NoResult == [type |-> "none", kind |-> "none", msg |-> "none"]
OkResult == [type |-> "Ok", kind |-> "Ok", msg |-> "none"]
\* the operation's own Err(e), handed back unchanged
OperationError == [type |-> "operation", kind |-> "operation", msg |-> "operation"]
\* the caller dropped the future: nothing is returned
DroppedResult == [type |-> "dropped", kind |-> "dropped", msg |-> "none"]

\* timeout.rs:122-125 and timeout.rs:176-181
RejectedError(entry) ==
    IF entry = "execute_with_timeout"
    THEN [type |-> "io::Error", kind |-> "WouldBlock",
          msg |-> "Too many concurrent database operations"]
    ELSE [type |-> "ProviderError::Database", kind |-> "DatabaseError::Other",
          msg |-> "Too many concurrent provider operations"]

\* timeout.rs:151-154 and timeout.rs:207-212
TimedOutError(entry) ==
    IF entry = "execute_with_timeout"
    THEN [type |-> "io::Error", kind |-> "TimedOut",
          msg |-> "Database operation timed out"]
    ELSE [type |-> "ProviderError::Database", kind |-> "DatabaseError::Other",
          msg |-> "Provider operation timed out"]

\* fn can_start_operation(&self) -> bool
can_start_operation_OffByOne == active_connections <= max_concurrent_operations
can_start_operation == active_connections < max_concurrent_operations

\* DatabaseTimeoutWrapper::new + with_max_concurrent_operations; DatabaseStats::default()
InitGuard ==
    /\ max_concurrent_operations \in 0..MaxCeiling
    /\ active_connections = 0
    /\ total_operations = 0
    /\ timeout_operations = 0
    /\ successful_operations = 0
    /\ op_pc = [p \in Tasks |-> "idle"]
    /\ op_entry = [p \in Tasks |-> "execute_with_timeout"]
    /\ op_result = [p \in Tasks |-> NoResult]
    /\ op_polled = [p \in Tasks |-> FALSE]
    /\ op_released = [p \in Tasks |-> 0]
    /\ attempts = 0

\* A task calls execute_with_timeout or execute_provider_with_timeout.
CallGuarded(p, entry) ==
    /\ op_pc[p] \in {"idle", "returned"}
    /\ attempts < MaxAttempts
    /\ attempts' = attempts + 1
    /\ op_pc' = [op_pc EXCEPT ![p] = "check"]
    /\ op_entry' = [op_entry EXCEPT ![p] = entry]
    /\ op_result' = [op_result EXCEPT ![p] = NoResult]
    /\ op_polled' = [op_polled EXCEPT ![p] = FALSE]
    /\ op_released' = [op_released EXCEPT ![p] = 0]
    /\ UNCHANGED <<max_concurrent_operations, active_connections, total_operations,
                   timeout_operations, successful_operations>>
    /\ UNCHANGED <<dispatchVars, evmVars, calcVars, pathVars, gasVars, forwardVars>>

\* `if !self.can_start_operation() { return Err(..) }`: one relaxed load of
\* active_connections; the rejection returns before a guard exists.
CheckCanStart_CountsRejected(p) ==
    /\ op_pc[p] = "check"
    /\ IF can_start_operation
       THEN /\ op_pc' = [op_pc EXCEPT ![p] = "guard_increment_active"]
            /\ UNCHANGED <<op_result, total_operations>>
       ELSE /\ op_pc' = [op_pc EXCEPT ![p] = "returned"]
            /\ op_result' = [op_result EXCEPT ![p] = RejectedError(op_entry[p])]
            /\ total_operations' = total_operations + 1
    /\ UNCHANGED <<max_concurrent_operations, active_connections,
                   timeout_operations, successful_operations, op_entry, op_polled,
                   op_released, attempts>>
    /\ UNCHANGED <<dispatchVars, evmVars, calcVars, pathVars, gasVars, forwardVars>>
CheckCanStart(p) ==
    /\ op_pc[p] = "check"
    /\ IF can_start_operation
       THEN /\ op_pc' = [op_pc EXCEPT ![p] = "guard_increment_active"]
            /\ UNCHANGED op_result
       ELSE /\ op_pc' = [op_pc EXCEPT ![p] = "returned"]
            /\ op_result' = [op_result EXCEPT ![p] = RejectedError(op_entry[p])]
    /\ UNCHANGED <<max_concurrent_operations, active_connections, total_operations,
                   timeout_operations, successful_operations, op_entry, op_polled,
                   op_released, attempts>>
    /\ UNCHANGED <<dispatchVars, evmVars, calcVars, pathVars, gasVars, forwardVars>>

\* OperationGuard::new, first statement: stats.increment_active() (a fetch_add,
\* separate from the load in can_start_operation).
GuardIncrementActive(p) ==
    /\ op_pc[p] = "guard_increment_active"
    /\ active_connections' = active_connections + 1
    /\ op_pc' = [op_pc EXCEPT ![p] = "guard_increment_total"]
    /\ UNCHANGED <<max_concurrent_operations, total_operations, timeout_operations,
                   successful_operations, op_entry, op_result, op_polled, op_released,
                   attempts>>
    /\ UNCHANGED <<dispatchVars, evmVars, calcVars, pathVars, gasVars, forwardVars>>

\* OperationGuard::new, second statement: stats.increment_total(); the same poll
\* goes on into `timeout(self.read_timeout, operation).await`, which polls
\* `operation` before it looks at the timer.
GuardIncrementTotal(p) ==
    /\ op_pc[p] = "guard_increment_total"
    /\ total_operations' = total_operations + 1
    /\ op_polled' = [op_polled EXCEPT ![p] = TRUE]
    /\ op_pc' = [op_pc EXCEPT ![p] = "awaiting"]
    /\ UNCHANGED <<max_concurrent_operations, active_connections, timeout_operations,
                   successful_operations, op_entry, op_result, op_released, attempts>>
    /\ UNCHANGED <<dispatchVars, evmVars, calcVars, pathVars, gasVars, forwardVars>>

\* timeout(..) yields Ok(Ok(_)): increment_successful, result returned.
OperationSucceeds(p) ==
    /\ op_pc[p] = "awaiting"
    /\ successful_operations' = successful_operations + 1
    /\ op_result' = [op_result EXCEPT ![p] = OkResult]
    /\ op_pc' = [op_pc EXCEPT ![p] = "drop_guard"]
    /\ UNCHANGED <<max_concurrent_operations, active_connections, total_operations,
                   timeout_operations, op_entry, op_polled, op_released, attempts>>
    /\ UNCHANGED <<dispatchVars, evmVars, calcVars, pathVars, gasVars, forwardVars>>

\* timeout(..) yields Ok(Err(_)): no counter, result returned unchanged.
OperationFails_CountedSuccessful(p) ==
    /\ op_pc[p] = "awaiting"
    /\ successful_operations' = successful_operations + 1
    /\ op_result' = [op_result EXCEPT ![p] = OperationError]
    /\ op_pc' = [op_pc EXCEPT ![p] = "drop_guard"]
    /\ UNCHANGED <<max_concurrent_operations, active_connections, total_operations,
                   timeout_operations, op_entry, op_polled, op_released, attempts>>
    /\ UNCHANGED <<dispatchVars, evmVars, calcVars, pathVars, gasVars, forwardVars>>
OperationFails(p) ==
    /\ op_pc[p] = "awaiting"
    /\ op_result' = [op_result EXCEPT ![p] = OperationError]
    /\ op_pc' = [op_pc EXCEPT ![p] = "drop_guard"]
    /\ UNCHANGED <<max_concurrent_operations, active_connections, total_operations,
                   timeout_operations, successful_operations, op_entry, op_polled,
                   op_released, attempts>>
    /\ UNCHANGED <<dispatchVars, evmVars, calcVars, pathVars, gasVars, forwardVars>>

\* timeout(..) yields Err(Elapsed): increment_timeout, timeout error returned.
ReadTimeoutElapses(p) ==
    /\ op_pc[p] = "awaiting"
    /\ timeout_operations' = timeout_operations + 1
    /\ op_result' = [op_result EXCEPT ![p] = TimedOutError(op_entry[p])]
    /\ op_pc' = [op_pc EXCEPT ![p] = "drop_guard"]
    /\ UNCHANGED <<max_concurrent_operations, active_connections, total_operations,
                   successful_operations, op_entry, op_polled, op_released, attempts>>
    /\ UNCHANGED <<dispatchVars, evmVars, calcVars, pathVars, gasVars, forwardVars>>

\* The caller drops the future while it is suspended at the await: the match
\* arms never run, the future's locals (the guard among them) are dropped.
FutureDropped_ForgetsGuard(p) ==
    /\ op_pc[p] = "awaiting"
    /\ op_result' = [op_result EXCEPT ![p] = DroppedResult]
    /\ op_pc' = [op_pc EXCEPT ![p] = "returned"]
    /\ UNCHANGED <<max_concurrent_operations, active_connections, total_operations,
                   timeout_operations, successful_operations, op_entry, op_polled,
                   op_released, attempts>>
    /\ UNCHANGED <<dispatchVars, evmVars, calcVars, pathVars, gasVars, forwardVars>>
FutureDropped(p) ==
    /\ op_pc[p] = "awaiting"
    /\ op_result' = [op_result EXCEPT ![p] = DroppedResult]
    /\ op_pc' = [op_pc EXCEPT ![p] = "drop_guard"]
    /\ UNCHANGED <<max_concurrent_operations, active_connections, total_operations,
                   timeout_operations, successful_operations, op_entry, op_polled,
                   op_released, attempts>>
    /\ UNCHANGED <<dispatchVars, evmVars, calcVars, pathVars, gasVars, forwardVars>>

\* impl Drop for OperationGuard: stats.decrement_active() as `_guard` leaves scope.
DropGuard_LeakOnTimeout(p) ==
    /\ op_pc[p] = "drop_guard"
    /\ IF op_result[p] = TimedOutError(op_entry[p])
       THEN UNCHANGED <<active_connections, op_released>>
       ELSE /\ active_connections' = active_connections - 1
            /\ op_released' = [op_released EXCEPT ![p] = @ + 1]
    /\ op_pc' = [op_pc EXCEPT ![p] = "returned"]
    /\ UNCHANGED <<max_concurrent_operations, total_operations, timeout_operations,
                   successful_operations, op_entry, op_result, op_polled, attempts>>
    /\ UNCHANGED <<dispatchVars, evmVars, calcVars, pathVars, gasVars, forwardVars>>
DropGuard_DecrementsTotal(p) ==
    /\ op_pc[p] = "drop_guard"
    /\ active_connections' = active_connections - 1
    /\ total_operations' = total_operations - 1
    /\ op_released' = [op_released EXCEPT ![p] = @ + 1]
    /\ op_pc' = [op_pc EXCEPT ![p] = "returned"]
    /\ UNCHANGED <<max_concurrent_operations, timeout_operations,
                   successful_operations, op_entry, op_result, op_polled, attempts>>
    /\ UNCHANGED <<dispatchVars, evmVars, calcVars, pathVars, gasVars, forwardVars>>
DropGuard(p) ==
    /\ op_pc[p] = "drop_guard"
    /\ active_connections' = active_connections - 1
    /\ op_released' = [op_released EXCEPT ![p] = @ + 1]
    /\ op_pc' = [op_pc EXCEPT ![p] = "returned"]
    /\ UNCHANGED <<max_concurrent_operations, total_operations, timeout_operations,
                   successful_operations, op_entry, op_result, op_polled, attempts>>
    /\ UNCHANGED <<dispatchVars, evmVars, calcVars, pathVars, gasVars, forwardVars>>

NextGuard ==
    \/ \E p \in Tasks, entry \in EntryPoints : CallGuarded(p, entry)
    \/ \E p \in Tasks : CheckCanStart(p)
    \/ \E p \in Tasks : GuardIncrementActive(p)
    \/ \E p \in Tasks : GuardIncrementTotal(p)
    \/ \E p \in Tasks : OperationSucceeds(p)
    \/ \E p \in Tasks : OperationFails(p)
    \/ \E p \in Tasks : ReadTimeoutElapses(p)
    \/ \E p \in Tasks : FutureDropped(p)
    \/ \E p \in Tasks : DropGuard(p)

\* Tasks whose OperationGuard exists: constructed (counter incremented) and not
\* yet dropped.
GuardHolders ==
    {p \in Tasks : op_pc[p] \in {"guard_increment_total", "awaiting", "drop_guard"}}

\* ---------------------------------------------------------------- C1
\* C1: under any interleaving of guarded calls sharing one DatabaseStats, the
\* active-operation counter never exceeds max_concurrent_operations.
ActiveNeverExceedsCeiling == active_connections <= max_concurrent_operations

EndedPaths(p) == {OkResult, OperationError, TimedOutError(op_entry[p]), DroppedResult}

ReleasedOnceInv ==
    \A p \in Tasks :
        /\ (op_pc[p] = "returned" /\ op_result[p] \in EndedPaths(p)) => op_released[p] = 1
        /\ (op_pc[p] = "returned" /\ op_result[p] = RejectedError(op_entry[p]))
              => op_released[p] = 0
        /\ op_pc[p] \in {"guard_increment_total", "awaiting", "drop_guard"}
              => op_released[p] = 0

ReleaseStep ==
    \A p \in Tasks :
        /\ (op_pc[p] = "drop_guard" /\ op_pc'[p] = "returned") =>
              /\ active_connections' = active_connections - 1
              /\ op_released'[p] = op_released[p] + 1
              /\ (active_connections = max_concurrent_operations => can_start_operation')
        /\ (op_released'[p] # op_released[p] /\ op_pc'[p] # "check") =>
              (op_pc[p] = "drop_guard" /\ op_pc'[p] = "returned")

Counters == <<active_connections, total_operations, timeout_operations,
              successful_operations>>

\* C17: a guarded operation attempted while the active count has reached the
\* ceiling is rejected without `operation` ever being polled, and the rejected
\* call (its entry and its rejection) leaves the active, total, timed-out and
\* successful counters unchanged.
RejectionStep ==
    \A p \in Tasks :
        /\ (op_pc[p] \in {"idle", "returned"} /\ op_pc'[p] = "check") =>
              (Counters' = Counters /\ ~op_polled'[p])
        /\ (/\ op_pc[p] = "check"
            /\ op_pc'[p] # "check"
            /\ active_connections >= max_concurrent_operations) =>
              /\ op_pc'[p] = "returned"
              /\ op_result'[p] = RejectedError(op_entry[p])
              /\ ~op_polled'[p]
              /\ Counters' = Counters

RejectedNeverPolled ==
    \A p \in Tasks :
        (op_pc[p] = "returned" /\ op_result[p] = RejectedError(op_entry[p]))
            => ~op_polled[p]

RejectionLeavesNoTrace == []RejectedNeverPolled /\ [][RejectionStep]_vars

\* a provider operation was rejected at ceiling 1 after one operation had
\* succeeded and while another held the only slot
RejectionLeavesNoTraceWitness ==
    /\ max_concurrent_operations = 1
    /\ \E p \in Tasks : /\ op_pc[p] = "returned"
                        /\ op_entry[p] = "execute_provider_with_timeout"
                        /\ op_result[p] = RejectedError(op_entry[p])
                        /\ ~op_polled[p]
    /\ \E p \in Tasks : op_pc[p] = "awaiting" /\ op_polled[p]
    /\ Counters = <<1, 2, 0, 1>>

\* ---------------------------------------------------------------- C18
\* C18: for each of the two guarded entry points, the error returned on
\* admission rejection is of another kind than the error returned on
\* read-timeout expiry.
RejectionAndTimeoutDifferByKind ==
    \A p, q \in Tasks :
        (/\ op_pc[p] = "returned"
         /\ op_pc[q] = "returned"
         /\ op_entry[p] = op_entry[q]
         /\ op_result[p] = RejectedError(op_entry[p])
         /\ op_result[q] = TimedOutError(op_entry[q]))
            => <<op_result[p].type, op_result[p].kind>> #
                   <<op_result[q].type, op_result[q].kind>>

\* ---------------------------------------------------------------- C19
\* C19: for each admitted guarded operation exactly one outcome is recorded:
\* success adds one to the successful counter and leaves the timeout counter;
\* read-timeout expiry adds one to the timeout counter, leaves the successful
\* counter and returns the timeout error; an underlying failure changes neither
\* and returns the operation's own error.  No other step touches the two
\* counters.
OutcomeStep ==
    /\ \A p \in Tasks :
          (op_pc[p] = "awaiting" /\ op_pc'[p] # "awaiting") =>
              /\ op_result'[p] \in {OkResult, OperationError,
                                    TimedOutError(op_entry[p]), DroppedResult}
              /\ op_result'[p] = OkResult =>
                    /\ successful_operations' = successful_operations + 1
                    /\ timeout_operations' = timeout_operations
              /\ op_result'[p] = TimedOutError(op_entry[p]) =>
                    /\ timeout_operations' = timeout_operations + 1
                    /\ successful_operations' = successful_operations
              /\ op_result'[p] \in {OperationError, DroppedResult} =>
                    /\ timeout_operations' = timeout_operations
                    /\ successful_operations' = successful_operations
    /\ (\A p \in Tasks : ~(op_pc[p] = "awaiting" /\ op_pc'[p] # "awaiting")) =>
          /\ timeout_operations' = timeout_operations
          /\ successful_operations' = successful_operations

\* what was returned stays what the outcome step recorded
OutcomeKept ==
    \A p \in Tasks :
        (op_pc[p] = "drop_guard" /\ op_pc'[p] = "returned") => op_result'[p] = op_result[p]

OneOutcomeRecorded == [][OutcomeStep /\ OutcomeKept]_vars

\* one success, one read-timeout and one failure have been recorded
OneOutcomeRecordedWitness ==
    /\ successful_operations = 1
    /\ timeout_operations = 1
    /\ total_operations = 3
    /\ \E p \in Tasks : op_pc[p] = "returned" /\ op_result[p] = OperationError
    /\ \E p \in Tasks : /\ op_pc[p] = "returned"
                        /\ op_result[p] = TimedOutError(op_entry[p])

\* ---------------------------------------------------------------- C34
\* C34: the total, timed-out and successful operation counters never decrease
\* in any step and are never reset; only the active counter goes down, and it
\* does so only when an OperationGuard is dropped.
CountersMonotonic ==
    [][/\ total_operations' >= total_operations
       /\ timeout_operations' >= timeout_operations
       /\ successful_operations' >= successful_operations
       /\ active_connections' < active_connections =>
             \E p \in Tasks : op_pc[p] = "drop_guard" /\ op_pc'[p] = "returned"]_vars

\* all three counters have counted and the active counter is back at zero
CountersMonotonicWitness ==
    /\ total_operations = 2
    /\ timeout_operations = 1
    /\ successful_operations = 1
    /\ active_connections = 0
    /\ \A p \in Tasks : op_pc[p] = "returned" /\ op_released[p] = 1

\* ---------------------------------------------------------------- C35
\* every admission raises total_operations by one, and nothing else changes it
TotalCountsAdmissions ==
    total_operations' - total_operations =
        Cardinality({p \in Tasks : op_pc[p] = "guard_increment_total"
                                    /\ op_pc'[p] = "awaiting"})

ActiveCountsHolders ==
    /\ active_connections = Cardinality(GuardHolders)
    /\ active_connections >= 0
    /\ total_operations >= active_connections - Cardinality({p \in Tasks :
                                    op_pc[p] = "guard_increment_total"})
    /\ total_operations <= attempts

\* C35: in every reachable state the active counter equals the number of
\* guarded operations whose OperationGuard exists (admitted, scope not yet
\* ended), so it never goes below zero; the total counter counts exactly the
\* admissions: it goes up by one when a guard is constructed and in no other
\* step, a rejected attempt leaving it as it was.
ActiveEqualsOpenGuards == []ActiveCountsHolders /\ [][TotalCountsAdmissions]_vars

\* three attempts: one admitted and ended, one admitted and about to drop its
\* guard, one rejected
ActiveEqualsOpenGuardsWitness ==
    /\ max_concurrent_operations = 1
    /\ active_connections = 1
    /\ total_operations = 2
    /\ attempts = 3
    /\ op_pc[1] = "drop_guard"
    /\ op_pc[2] = "returned"
    /\ op_result[2] = RejectedError(op_entry[2])

\* ---------------------------------------------------------------- C40
\* task p holds a slot: its guard has counted it and not yet released it
HoldsSlot(p) == p \in GuardHolders

\* task p's operation ended, by one of the ways an admitted operation can end,
\* and its guard released the slot
EndedAndReleased(p) ==
    /\ op_pc[p] = "returned"
    /\ op_released[p] = 1
    /\ op_result[p] \in {OkResult, OperationError, TimedOutError(op_entry[p]), DroppedResult}

\* no new operation is attempted any more: the callers have made all the calls
\* they make
NoNewOperations == attempts = FairAttempts

\* task p is at the admission check of a retry while nobody else is calling
RetriesAlone(p) ==
    /\ op_pc[p] = "check"
    /\ NoNewOperations
    /\ \A q \in Tasks \ {p} : op_pc[q] \in {"idle", "returned"}

AdmittedEndsAndReleases == \A p \in Tasks : HoldsSlot(p) ~> EndedAndReleased(p)

ActiveReturnsToZero == NoNewOperations ~> [](active_connections = 0)

\* C40 as stated: under fair scheduling every admitted guarded operation
\* eventually ends and releases its slot, so if no new operations are attempted
\* the active counter eventually returns to zero and a rejected caller that
\* retries is eventually admitted.
EveryAdmittedEndsAndRetrySucceeds ==
    /\ AdmittedEndsAndReleases
    /\ ActiveReturnsToZero
    /\ \A p \in Tasks : RetriesAlone(p) ~> HoldsSlot(p)

\* C40, as the code has it: the same, the retry being admitted when the
\* ceiling is at least 1; with a ceiling of 0 every attempt is rejected.  An
\* admitted operation ends by success, failure, read-timeout expiry or the
\* drop of its future.
EveryAdmittedEndsAndRetrySucceedsBelowCeiling ==
    /\ AdmittedEndsAndReleases
    /\ ActiveReturnsToZero
    /\ \A p \in Tasks :
          (RetriesAlone(p) /\ max_concurrent_operations >= 1) ~> HoldsSlot(p)
    /\ \A p \in Tasks :
          (RetriesAlone(p) /\ max_concurrent_operations = 0)
              ~> (op_pc[p] = "returned" /\ op_result[p] = RejectedError(op_entry[p]))

\* ceiling 1: task 2 was rejected while task 1 held the slot; task 1's read
\* timed out and released it; task 2's retry is admitted
EveryAdmittedEndsAndRetrySucceedsWitness ==
    /\ max_concurrent_operations = 1
    /\ attempts = FairAttempts
    /\ total_operations = 2
    /\ timeout_operations = 1
    /\ op_pc[1] = "returned"
    /\ op_released[1] = 1
    /\ op_result[1] = TimedOutError(op_entry[1])
    /\ op_pc[2] = "awaiting"
    /\ active_connections = 1

\* =====================================================================
\* TimeoutWrapper (src/src/node/rpc/timeout.rs) and
\* ChunkedExecutionEngine (src/src/node/rpc/chunked_execution.rs)
\* =====================================================================

\* u64::MAX, at the widest word TLC's integers hold: the model's u64 is
\* 31 bits wide, and wraps (or faults) there as the program's does at 64.
U64Max == 2147483647
\* Option<u64>::None for request.gas and max_local_gas_limit
NoneGas == -1
\* a panic raised by an arithmetic operation
ArithFault == -2
RPC_TIMEOUT_ERROR_CODE == -32603

\* bounds of the explored configurations and requests
MaxChunkGasLimit == 2
MaxThreshold == 2
MaxChunksBound == 2
MaxGas == 5
NumResultValues == 2
NumExecErrors == 1

Min(a, b) == IF a <= b THEN a ELSE b

\* a + b on u64: panics with overflow checks (debug profile), wraps without
U64Add(a, b, checks) ==
    IF a > U64Max - b
    THEN IF checks THEN ArithFault ELSE a - (U64Max - b) - 1
    ELSE a + b

\* a - b on u64
U64Sub(a, b, checks) ==
    IF a < b
    THEN IF checks THEN ArithFault ELSE U64Max - (b - a) + 1
    ELSE a - b

\* a / b on u64: division by zero panics in every profile
U64Div(a, b) == IF b = 0 THEN ArithFault ELSE a \div b

\* impl Default for ChunkedExecutionConfig
DefaultChunkedExecutionConfig ==
    [chunk_gas_limit |-> 50000000, chunking_threshold |-> 100000000,
     chunk_delay_ms |-> 100, max_chunks |-> 100]

ChunkedExecutionConfigs ==
    {DefaultChunkedExecutionConfig} \cup
    [chunk_gas_limit : 0..MaxChunkGasLimit, chunking_threshold : 0..MaxThreshold,
     chunk_delay_ms : {0, 100}, max_chunks : 0..MaxChunksBound]

\* gas values a request may declare
GasValues ==
    {NoneGas} \cup 0..MaxGas \cup {1000000, 1000001, 150000000, 2000000000, U64Max}

\* what a request carries besides its gas: the fields of the TransactionRequest
\* (the call target standing for them), block_number and the overrides
NoRequest == [to |-> "none", block_number |-> "none", overrides |-> "none"]
\* the requests explored, one for each method: call_with_timeout takes an
\* Option<BlockId> and EvmOverrides, estimate_gas_with_timeout a BlockId and an
\* Option<StateOverride>
Requests(method) ==
    IF method = "call"
    THEN {[to |-> "a", block_number |-> "Some(latest)", overrides |-> "EvmOverrides"]}
    ELSE {[to |-> "b", block_number |-> "number", overrides |-> "Some(StateOverride)"]}

Methods == {"call", "estimate"}
ResultValues == 1..NumResultValues
ExecErrors == 1..NumExecErrors

NoOutcome == [tag |-> "none", code |-> 0, msg |-> "none", val |-> 0, chunk |-> 0]
OkOutcome(v) == [tag |-> "Ok", code |-> 0, msg |-> "none", val |-> v, chunk |-> 0]
ErrorObject(code, msg, e, chunk) ==
    [tag |-> "Err", code |-> code, msg |-> msg, val |-> e, chunk |-> chunk]

\* timeout.rs:98-102, 158-162
GasLimitError ==
    ErrorObject(RPC_TIMEOUT_ERROR_CODE, "Gas limit too high for local execution", 0, 0)
\* timeout.rs:136-140, 196-200
DeadlineError(method) ==
    ErrorObject(RPC_TIMEOUT_ERROR_CODE,
                IF method = "call" THEN "Call execution timed out"
                                   ELSE "Gas estimation timed out", 0, 0)
\* timeout.rs:121, 181: the direct path's map_err
DirectError(method, e) ==
    ErrorObject(RPC_TIMEOUT_ERROR_CODE,
                IF method = "call" THEN "Call execution failed"
                                   ELSE "Gas estimation failed", e, 0)
\* chunked_execution.rs:131, 228: the chunk loop's map_err, naming chunk_idx + 1
ChunkError(method, e, idx) ==
    ErrorObject(-32603,
                IF method = "call" THEN "Chunk failed" ELSE "Chunk estimation failed",
                e, idx + 1)

\* ChunkedExecutionEngine.config
config == cfg.chunked

\* pub fn should_forward_call(&self, gas_limit: Option<u64>) -> bool
should_forward_call_AtLimit(gas_limit) ==
    IF cfg.max_local_gas_limit # NoneGas /\ gas_limit # NoneGas
    THEN gas_limit >= cfg.max_local_gas_limit
    ELSE FALSE
should_forward_call(gas_limit) ==
    IF cfg.max_local_gas_limit # NoneGas /\ gas_limit # NoneGas
    THEN gas_limit > cfg.max_local_gas_limit
    ELSE FALSE

\* pub fn should_use_chunking(&self, gas_limit: Option<u64>) -> bool
should_use_chunking_Strict(gas_limit) ==
    gas_limit # NoneGas /\ gas_limit > config.chunking_threshold
should_use_chunking_DefaultGas(gas_limit) ==
    (IF gas_limit = NoneGas THEN 21000 ELSE gas_limit) >= config.chunking_threshold
should_use_chunking(gas_limit) ==
    gas_limit # NoneGas /\ gas_limit >= config.chunking_threshold

\* fn calculate_chunks(&self, gas_limit: u64) -> u32:
\*   let chunks = (gas_limit + chunk_gas_limit - 1) / chunk_gas_limit;
\*   chunks.min(max_chunks as u64) as u32
calculate_chunks(gas_limit) ==
    LET sum == U64Add(gas_limit, config.chunk_gas_limit, overflow_checks)
    IN  IF sum = ArithFault THEN ArithFault
        ELSE LET num == U64Sub(sum, 1, overflow_checks)
             IN  IF num = ArithFault THEN ArithFault
                 ELSE LET chunks == U64Div(num, config.chunk_gas_limit)
                      IN  IF chunks = ArithFault THEN ArithFault
                          ELSE Min(chunks, config.max_chunks)

\* the timeout_duration of a call that returned before computing one
NoDeadline == -1

\* floor(x * n / (k * unit)) for naturals, by parts so that no product leaves
\* the range of the integers at hand: n = a * unit + b
FloorMulDiv(x, n, k, unit) ==
    LET a == n \div unit
        b == n % unit
    IN  (x * a + ((x * b) \div unit)) \div k

\* `let gas = gas_limit.unwrap_or(21000);`
gas_unwrap_or_TwoMillion(gas_limit) == IF gas_limit = NoneGas THEN 2100000 ELSE gas_limit
gas_unwrap_or(gas_limit) == IF gas_limit = NoneGas THEN 21000 ELSE gas_limit

\* `let timeout_secs = if gas <= 1_000_000 {..} else if gas <= 100_000_000 {..} else {..}`
\* The f64 expressions are computed here in exact arithmetic and truncated as
\* the `as u64` cast truncates:
\*   (base as f64 * (1.0 + (gas - 1e6) / 99e6 * 9.0)) as u64
\*       = base + floor(9 * base * (gas - 1e6) / 99e6)
\*   ((max - base_scaled) as f64 * ((gas - 1e8) / 1.9e9)) as u64
\*       = floor((max - base_scaled) * (gas - 1e8) / 1.9e9)
\* `max - base_scaled` is a u64 subtraction: below zero it panics with overflow
\* checks.  Without them it wraps to 2^64 - (base_scaled - max); the product with
\* scale is then at least 2^64 / 1.9e9 > 9.7e9, and from scale = 1.0 on (gas >=
\* 2e9) it is 2^64 as f64, which the cast saturates to u64::MAX, so that
\* base_scaled + additional wraps to base_scaled - 1.  U64Max stands for the sum
\* in the first case (it is above every max_timeout of the model).
timeout_secs_NoBaseScaled(gas) ==
    LET base == cfg.rpc_timeout
    IN  IF gas <= 1000000
        THEN base
        ELSE IF gas <= 100000000
             THEN base + FloorMulDiv(9 * base, gas - 1000000, 990, 100000)
             ELSE LET base_scaled == base * 10
                  IN  IF cfg.max_timeout < base_scaled
                      THEN IF overflow_checks THEN ArithFault
                           ELSE IF gas >= 2000000000 THEN base_scaled - 1 ELSE U64Max
                      ELSE FloorMulDiv(cfg.max_timeout - base_scaled,
                                       gas - 100000000, 19000, 100000)
timeout_secs_UpperPieceOverTwoBillion(gas) ==
    LET base == cfg.rpc_timeout
    IN  IF gas <= 1000000
        THEN base
        ELSE IF gas <= 100000000
             THEN base + FloorMulDiv(9 * base, gas - 1000000, 990, 100000)
             ELSE LET base_scaled == base * 10
                  IN  IF cfg.max_timeout < base_scaled
                      THEN IF overflow_checks THEN ArithFault
                           ELSE IF gas >= 2000000000 THEN base_scaled - 1 ELSE U64Max
                      ELSE base_scaled +
                           FloorMulDiv(cfg.max_timeout - base_scaled,
                                       gas - 100000000, 20000, 100000)
timeout_secs_MiddlePieceRoundsUp(gas) ==
    LET base == cfg.rpc_timeout
    IN  IF gas <= 1000000
        THEN base
        ELSE IF gas <= 100000000
             THEN base + FloorMulDiv(9 * base, gas - 1000000, 990, 100000) + 1
             ELSE LET base_scaled == base * 10
                  IN  IF cfg.max_timeout < base_scaled
                      THEN IF overflow_checks THEN ArithFault
                           ELSE IF gas >= 2000000000 THEN base_scaled - 1 ELSE U64Max
                      ELSE base_scaled +
                           FloorMulDiv(cfg.max_timeout - base_scaled,
                                       gas - 100000000, 19000, 100000)
timeout_secs(gas) ==
    LET base == cfg.rpc_timeout
    IN  IF gas <= 1000000
        THEN base
        ELSE IF gas <= 100000000
             THEN base + FloorMulDiv(9 * base, gas - 1000000, 990, 100000)
             ELSE LET base_scaled == base * 10
                  IN  IF cfg.max_timeout < base_scaled
                      THEN IF overflow_checks THEN ArithFault
                           ELSE IF gas >= 2000000000 THEN base_scaled - 1 ELSE U64Max
                      ELSE base_scaled +
                           FloorMulDiv(cfg.max_timeout - base_scaled,
                                       gas - 100000000, 19000, 100000)

\* fn calculate_timeout(&self, gas_limit: Option<u64>) -> Duration, in seconds
calculate_timeout_Unclamped(gas_limit) ==
    IF ~cfg.enable_progressive_timeout
    THEN cfg.rpc_timeout
    ELSE timeout_secs(gas_unwrap_or(gas_limit))
calculate_timeout(gas_limit) ==
    IF ~cfg.enable_progressive_timeout
    THEN cfg.rpc_timeout
    ELSE LET secs == timeout_secs(gas_unwrap_or(gas_limit))
         IN  IF secs = ArithFault THEN ArithFault ELSE Min(secs, cfg.max_timeout)

\* TimeoutWrapper::new with the defaults of the command line
DefaultTimeoutWrapper ==
    [rpc_timeout |-> 30, max_local_gas_limit |-> NoneGas,
     enable_progressive_timeout |-> TRUE, max_timeout |-> 3600,
     chunked |-> DefaultChunkedExecutionConfig]

\* the policies the dispatcher is explored with: the default one, one whose
\* max_timeout is below 10 x rpc_timeout, and one without progressive scaling
DispatchPolicies ==
    {[rpc_timeout |-> 30, enable_progressive_timeout |-> TRUE, max_timeout |-> 3600],
     [rpc_timeout |-> 30, enable_progressive_timeout |-> TRUE, max_timeout |-> 100],
     [rpc_timeout |-> 30, enable_progressive_timeout |-> FALSE, max_timeout |-> 3600]}

\* TimeoutWrapper::new(..).with_progressive_timeout(..).with_chunked_execution(..)
TimeoutWrapperOf(p, m, c) ==
    [rpc_timeout |-> p.rpc_timeout, max_local_gas_limit |-> m,
     enable_progressive_timeout |-> p.enable_progressive_timeout,
     max_timeout |-> p.max_timeout, chunked |-> c]

\* the wrappers the dispatcher is explored with: every chunk plan under the
\* default policy, and every policy with the default plan and with a plan of
\* single-gas chunks
DispatchConfigs ==
    {TimeoutWrapperOf([rpc_timeout |-> 30, enable_progressive_timeout |-> TRUE,
                       max_timeout |-> 3600], m, c) :
        m \in {NoneGas, 3, 1000000}, c \in ChunkedExecutionConfigs}
    \cup
    {TimeoutWrapperOf(p, m, c) :
        p \in DispatchPolicies, m \in {NoneGas, 3, 1000000},
        c \in {DefaultChunkedExecutionConfig,
               [chunk_gas_limit |-> 1, chunking_threshold |-> 0,
                chunk_delay_ms |-> 0, max_chunks |-> 2]}}

\* TimeoutWrapper::new / with_chunked_execution, and the profile the crate is built with
DispatchIdle ==
    /\ d_pc = "idle"
    /\ d_method = "call"
    /\ d_gas = NoneGas
    /\ d_result = NoOutcome
    /\ timeout_duration = NoDeadline
    /\ e_pc = "none"
    /\ e_outcome = NoOutcome
    /\ original_gas = 0
    /\ total_chunks = 0
    /\ chunk_idx = 0
    /\ chunk_gas = 0
    /\ processed_gas = 0
    /\ accumulated = 0
    /\ exec_log = <<>>
    /\ delays = <<>>
    /\ completed = 0
    /\ exec_value = 0
    /\ d_request = NoRequest
    /\ exec_args = <<>>

InitDispatch ==
    /\ overflow_checks \in BOOLEAN
    /\ cfg \in DispatchConfigs
    /\ DispatchIdle

\* the chunk loop's locals and the spies on eth_api and on sleep
Engine(pc, outcome, orig, total, idx, cgas, processed, acc, log, dl, args) ==
    /\ e_pc' = pc
    /\ e_outcome' = outcome
    /\ original_gas' = orig
    /\ total_chunks' = total
    /\ chunk_idx' = idx
    /\ chunk_gas' = cgas
    /\ processed_gas' = processed
    /\ accumulated' = acc
    /\ exec_log' = log
    /\ delays' = dl
    /\ exec_args' = args

\* a panic unwinds through the raced future and the dispatcher
Panics(orig, total, idx, processed, acc, log, dl, args) ==
    /\ Engine("panicked", NoOutcome, orig, total, idx, 0, processed, acc, log, dl, args)
    /\ d_pc' = "panicked"
    /\ d_result' = NoOutcome

\* `match timeout(timeout_duration, call_future).await { Ok(result) => result, .. }`
DispatcherReturns_ErrorsAsTimeout(outcome) ==
    /\ d_pc' = "returned"
    /\ d_result' = IF outcome.tag = "Err" THEN DeadlineError(d_method) ELSE outcome
DispatcherReturns(outcome) ==
    /\ d_pc' = "returned"
    /\ d_result' = outcome

\* Loop body of chunked_call / chunked_estimate_gas from `let chunk_gas = ..` to the
\* await on eth_api: the last chunk gets original_gas - processed_gas, every other
\* chunk chunk_gas_limit; request.gas = Some(chunk_gas); the execution is issued.
ExecuteChunk_IssuesNextToo(orig, total, idx, processed, acc, log, dl, args, req) ==
    LET cgas == IF idx = total - 1
                THEN U64Sub(orig, processed, overflow_checks)
                ELSE config.chunk_gas_limit
    IN  IF cgas = ArithFault
        THEN Panics(orig, total, idx, processed, acc, log, dl, args)
        ELSE /\ Engine("chunk_exec", NoOutcome, orig, total, idx, cgas, processed, acc,
                       IF idx < total - 1
                       THEN Append(Append(log, cgas), config.chunk_gas_limit)
                       ELSE Append(log, cgas), dl,
                       IF idx < total - 1
                       THEN Append(Append(args, req), req)
                       ELSE Append(args, req))
             /\ d_pc' = "racing"
             /\ d_result' = NoOutcome
ExecuteChunk_EveryChunkGetsLimit(orig, total, idx, processed, acc, log, dl, args, req) ==
    LET cgas == config.chunk_gas_limit
    IN  /\ Engine("chunk_exec", NoOutcome, orig, total, idx, cgas, processed, acc,
                  Append(log, cgas), dl, Append(args, req))
        /\ d_pc' = "racing"
        /\ d_result' = NoOutcome
ExecuteChunk_LaterChunksWithoutOverrides(orig, total, idx, processed, acc, log, dl, args, req) ==
    LET cgas == IF idx = total - 1
                THEN U64Sub(orig, processed, overflow_checks)
                ELSE config.chunk_gas_limit
    IN  IF cgas = ArithFault
        THEN Panics(orig, total, idx, processed, acc, log, dl, args)
        ELSE /\ Engine("chunk_exec", NoOutcome, orig, total, idx, cgas, processed, acc,
                       Append(log, cgas), dl,
                       Append(args, IF idx = 0 THEN req
                                    ELSE [req EXCEPT !.overrides = "none"]))
             /\ d_pc' = "racing"
             /\ d_result' = NoOutcome

ExecuteChunk(orig, total, idx, processed, acc, log, dl, args, req) ==
    LET cgas == IF idx = total - 1
                THEN U64Sub(orig, processed, overflow_checks)
                ELSE config.chunk_gas_limit
    IN  IF cgas = ArithFault
        THEN Panics(orig, total, idx, processed, acc, log, dl, args)
        ELSE /\ Engine("chunk_exec", NoOutcome, orig, total, idx, cgas, processed, acc,
                       Append(log, cgas), dl, Append(args, req))
             /\ d_pc' = "racing"
             /\ d_result' = NoOutcome

\* chunked_call / chunked_estimate_gas from entry to the first await.  The
\* dispatcher enters only with Some(gas) >= chunking_threshold, so the engine's
\* own `!should_use_chunking(Some(original_gas))` early return is not taken.
ChunkedBegin(gas, req) ==
    LET orig == IF gas = NoneGas THEN 21000 ELSE gas
        total == calculate_chunks(orig)
    IN  IF total = ArithFault
        THEN Panics(orig, 0, 0, 0, 0, <<>>, <<>>, <<>>)
        ELSE IF total = 0
             THEN \* `for chunk_idx in 0..0`: Ok(Bytes::new()) / Ok(U256::ZERO)
                  /\ Engine("finished", OkOutcome(0), orig, 0, 0, 0, 0, 0, <<>>, <<>>, <<>>)
                  /\ DispatcherReturns(OkOutcome(0))
             ELSE ExecuteChunk(orig, total, 0, 0, 0, <<>>, <<>>, <<>>, req)

\* call_with_timeout / estimate_gas_with_timeout from entry to the first
\* suspension of `timeout(timeout_duration, future).await`.
CallWithTimeout(method, gas) ==
    /\ d_pc \in {"idle", "returned", "panicked"}
    /\ d_method' = method
    /\ d_gas' = gas
    /\ d_request' \in Requests(method)
    /\ completed' = 0
    /\ exec_value' = 0
    /\ IF should_forward_call(gas)
       THEN /\ Engine("none", NoOutcome, 0, 0, 0, 0, 0, 0, <<>>, <<>>, <<>>)
            /\ d_pc' = "returned"
            /\ d_result' = GasLimitError
            /\ timeout_duration' = NoDeadline
       ELSE IF calculate_timeout(gas) = ArithFault
            THEN /\ Panics(0, 0, 0, 0, 0, <<>>, <<>>, <<>>)
                 /\ timeout_duration' = NoDeadline
            ELSE /\ timeout_duration' = calculate_timeout(gas)
                 /\ IF should_use_chunking(gas)
                    THEN ChunkedBegin(gas, d_request')
                    ELSE /\ Engine("direct_exec", NoOutcome, 0, 0, 0, 0, 0, 0, <<gas>>, <<>>,
                                   <<d_request'>>)
                         /\ d_pc' = "racing"
                         /\ d_result' = NoOutcome
    /\ UNCHANGED <<overflow_checks, cfg>>
    /\ UNCHANGED <<guardVars, evmVars, calcVars, pathVars, gasVars, forwardVars>>

\* EthCall::call / EstimateCall::estimate_gas_at of the direct path returns Ok(v)
DirectSucceeds(v) ==
    /\ e_pc = "direct_exec"
    /\ Engine("finished", OkOutcome(v), original_gas, total_chunks, chunk_idx, chunk_gas,
              processed_gas, accumulated, exec_log, delays, exec_args)
    /\ DispatcherReturns(OkOutcome(v))
    /\ completed' = completed + 1
    /\ exec_value' = v
    /\ UNCHANGED <<overflow_checks, cfg, d_method, d_gas, timeout_duration, d_request>>
    /\ UNCHANGED <<guardVars, evmVars, calcVars, pathVars, gasVars, forwardVars>>

\* the direct path's execution returns Err(e)
DirectFails(e) ==
    /\ e_pc = "direct_exec"
    /\ Engine("failed", DirectError(d_method, e), original_gas, total_chunks, chunk_idx,
              chunk_gas, processed_gas, accumulated, exec_log, delays, exec_args)
    /\ DispatcherReturns(DirectError(d_method, e))
    /\ completed' = completed + 1
    /\ UNCHANGED exec_value
    /\ UNCHANGED <<overflow_checks, cfg, d_method, d_gas, timeout_duration, d_request>>
    /\ UNCHANGED <<guardVars, evmVars, calcVars, pathVars, gasVars, forwardVars>>

\* duration of the sleep between chunks: chunk_delay_ms in chunked_call,
\* chunk_delay_ms / 2 in chunked_estimate_gas
SleepMs_EstimateSleepsInFull == config.chunk_delay_ms
SleepMs == IF d_method = "call" THEN config.chunk_delay_ms
                                ELSE config.chunk_delay_ms \div 2

\* `accumulated_result = chunk_result;` in chunked_call,
\* `total_estimated_gas += chunk_estimate;` in chunked_estimate_gas
accumulated_result_KeepsFirst(v) ==
    IF d_method = "call" THEN (IF chunk_idx = 0 THEN v ELSE accumulated) ELSE accumulated + v
accumulated_result(v) == IF d_method = "call" THEN v ELSE accumulated + v

\* the chunk in flight returns Ok(v): the rest of the loop body, then either the
\* sleep, the next chunk, or the end of the loop
ChunkSucceeds(v) ==
    /\ e_pc = "chunk_exec"
    /\ LET processed == U64Add(processed_gas, chunk_gas, overflow_checks)
           acc == accumulated_result(v)
       IN  IF processed = ArithFault
           THEN Panics(original_gas, total_chunks, chunk_idx, processed_gas, acc,
                       exec_log, delays, exec_args)
           ELSE IF chunk_idx < total_chunks - 1
                THEN IF config.chunk_delay_ms > 0
                     THEN /\ Engine("chunk_sleep", NoOutcome, original_gas, total_chunks,
                                    chunk_idx, chunk_gas, processed, acc, exec_log,
                                    Append(delays, SleepMs), exec_args)
                          /\ UNCHANGED <<d_pc, d_result>>
                     ELSE ExecuteChunk(original_gas, total_chunks, chunk_idx + 1,
                                       processed, acc, exec_log, delays, exec_args, d_request)
                ELSE /\ Engine("finished", OkOutcome(acc), original_gas, total_chunks,
                               chunk_idx, chunk_gas, processed, acc, exec_log, delays, exec_args)
                     /\ DispatcherReturns(OkOutcome(acc))
    /\ completed' = completed + 1
    /\ exec_value' = v
    /\ UNCHANGED <<overflow_checks, cfg, d_method, d_gas, timeout_duration, d_request>>
    /\ UNCHANGED <<guardVars, evmVars, calcVars, pathVars, gasVars, forwardVars>>

\* the chunk in flight returns Err(e): `?` leaves the loop with the chunk's error
ChunkFails_ReturnsPartial(e) ==
    /\ e_pc = "chunk_exec"
    /\ Engine("failed", OkOutcome(accumulated), original_gas, total_chunks,
              chunk_idx, chunk_gas, processed_gas, accumulated, exec_log, delays, exec_args)
    /\ DispatcherReturns(OkOutcome(accumulated))
    /\ completed' = completed + 1
    /\ UNCHANGED exec_value
    /\ UNCHANGED <<overflow_checks, cfg, d_method, d_gas, timeout_duration, d_request>>
    /\ UNCHANGED <<guardVars, evmVars, calcVars, pathVars, gasVars, forwardVars>>
ChunkFails_RetriesChunk(e) ==
    /\ e_pc = "chunk_exec"
    /\ ExecuteChunk(original_gas, total_chunks, chunk_idx, processed_gas, accumulated,
                    exec_log, delays, exec_args, d_request)
    /\ completed' = completed + 1
    /\ UNCHANGED exec_value
    /\ UNCHANGED <<overflow_checks, cfg, d_method, d_gas, timeout_duration, d_request>>
    /\ UNCHANGED <<guardVars, evmVars, calcVars, pathVars, gasVars, forwardVars>>

ChunkFails(e) ==
    /\ e_pc = "chunk_exec"
    /\ Engine("failed", ChunkError(d_method, e, chunk_idx), original_gas, total_chunks,
              chunk_idx, chunk_gas, processed_gas, accumulated, exec_log, delays, exec_args)
    /\ DispatcherReturns(ChunkError(d_method, e, chunk_idx))
    /\ completed' = completed + 1
    /\ UNCHANGED exec_value
    /\ UNCHANGED <<overflow_checks, cfg, d_method, d_gas, timeout_duration, d_request>>
    /\ UNCHANGED <<guardVars, evmVars, calcVars, pathVars, gasVars, forwardVars>>

\* the sleep between two chunks ends: the loop goes on with the next chunk
SleepElapses ==
    /\ e_pc = "chunk_sleep"
    /\ ExecuteChunk(original_gas, total_chunks, chunk_idx + 1, processed_gas, accumulated,
                    exec_log, delays, exec_args, d_request)
    /\ UNCHANGED <<completed, exec_value>>
    /\ UNCHANGED <<overflow_checks, cfg, d_method, d_gas, timeout_duration, d_request>>
    /\ UNCHANGED <<guardVars, evmVars, calcVars, pathVars, gasVars, forwardVars>>

\* `Err(_) =>` arm of the race: the budget elapsed while the raced future was
\* pending; timeout() drops the future and the timeout error is returned
DeadlineExpires_LoopGoesOn ==
    /\ d_pc = "racing"
    /\ e_pc \in {"direct_exec", "chunk_exec", "chunk_sleep"}
    /\ d_pc' = "returned"
    /\ d_result' = DeadlineError(d_method)
    /\ UNCHANGED <<e_pc, e_outcome, original_gas, total_chunks, chunk_idx, chunk_gas,
                   processed_gas, accumulated, exec_log, delays, completed, exec_value,
                   d_request, exec_args>>
    /\ UNCHANGED <<overflow_checks, cfg, d_method, d_gas, timeout_duration, d_request>>
    /\ UNCHANGED <<guardVars, evmVars, calcVars, pathVars, gasVars, forwardVars>>
DeadlineExpires ==
    /\ d_pc = "racing"
    /\ e_pc \in {"direct_exec", "chunk_exec", "chunk_sleep"}
    /\ d_pc' = "returned"
    /\ d_result' = DeadlineError(d_method)
    /\ e_pc' = "abandoned"
    /\ UNCHANGED <<e_outcome, original_gas, total_chunks, chunk_idx, chunk_gas,
                   processed_gas, accumulated, exec_log, delays, completed, exec_value,
                   d_request, exec_args>>
    /\ UNCHANGED <<overflow_checks, cfg, d_method, d_gas, timeout_duration, d_request>>
    /\ UNCHANGED <<guardVars, evmVars, calcVars, pathVars, gasVars, forwardVars>>

\* a step of the raced future
EngineStep ==
    \/ \E v \in ResultValues : DirectSucceeds(v)
    \/ \E e \in ExecErrors : DirectFails(e)
    \/ \E v \in ResultValues : ChunkSucceeds(v)
    \/ \E e \in ExecErrors : ChunkFails(e)
    \/ SleepElapses

NextDispatch ==
    \/ \E method \in Methods, gas \in GasValues : CallWithTimeout(method, gas)
    \/ \E v \in ResultValues : DirectSucceeds(v)
    \/ \E e \in ExecErrors : DirectFails(e)
    \/ \E v \in ResultValues : ChunkSucceeds(v)
    \/ \E e \in ExecErrors : ChunkFails(e)
    \/ SleepElapses
    \/ DeadlineExpires

\* =====================================================================
\* Precompile sourcing (src/crates/ethereum/evm/src/lib.rs)
\* =====================================================================

MaxResolutions == 3

Callers == {"a", "b"}
Heights == {0, 1}
\* read_precompile_calls values: EmptyCalls is the empty Vec
EmptyCalls == 0
CallSets == {EmptyCalls, 1}
\* Option::None of a lookup
NoEntry == -1

\* what a file of the ingest directory holds: unreadable/missing, a broken lz4
\* frame, bytes that are no msgpack Vec<FullBlockAndReceipts>, or the decoded
\* Vec (the read_precompile_calls of each record)
FileContents ==
    {[state |-> "missing", blocks |-> <<>>],
     [state |-> "bad_lz4_frame", blocks |-> <<>>],
     [state |-> "bad_msgpack", blocks |-> <<>>],
     [state |-> "ok", blocks |-> <<>>],
     [state |-> "ok", blocks |-> <<EmptyCalls>>],
     [state |-> "ok", blocks |-> <<1, EmptyCalls>>]}

\* collect_s3_block, lines 218-220: "{ingest}/{f}/{s}/{height}.rmp.lz4" with
\*   f = ((height - 1) / 1_000_000) * 1_000_000, s = ((height - 1) / 1_000) * 1_000
S3Path_BucketsOfHeight(height) ==
    <<(height \div 1000000) * 1000000, (height \div 1000) * 1000, height>>
S3Path(height) ==
    LET h1 == U64Sub(height, 1, overflow_checks)
    IN  IF h1 = ArithFault THEN <<ArithFault>>
        ELSE <<(h1 \div 1000000) * 1000000, (h1 \div 1000) * 1000, height>>

\* the files the archive can hold: one per height written by the ingestion side
ArchivePaths == {<<0, 0, h>> : h \in Heights \ {0}}

\* std::fs::read(&path) and the decoding that follows
FileAt(path) ==
    IF path \in DOMAIN archive THEN archive[path]
    ELSE [state |-> "missing", blocks |-> <<>>]

\* pub(crate) fn collect_s3_block(ingest_path, height) -> Option<BlockAndReceipts>
collect_s3_block(height) ==
    LET path == S3Path(height)
    IN  IF path = <<ArithFault>> THEN ArithFault
        ELSE LET file == FileAt(path)
             IN  IF file.state # "ok" THEN NoEntry       \* read or decode failed
                 ELSE IF file.blocks = <<>> THEN NoEntry \* blocks.get(0)?
                 ELSE file.blocks[1]

\* get_locally_sourced_precompiles_for_height: lock, then u_cache.remove(&height)
get_locally_sourced_precompiles_for_height_Peek(height) ==
    [calls |-> precompiles_cache[height], cache |-> precompiles_cache]
get_locally_sourced_precompiles_for_height_Drains(height) ==
    [calls |-> precompiles_cache[height],
     cache |-> [h \in Heights |-> NoEntry]]

get_locally_sourced_precompiles_for_height(height) ==
    [calls |-> precompiles_cache[height],
     cache |-> [precompiles_cache EXCEPT ![height] = NoEntry]]

NoEvm == [status |-> "none", source |-> "none", precompiles |-> NoEntry, seq |-> 0]
PanicEvm(n) == [status |-> "panic", source |-> "none", precompiles |-> NoEntry, seq |-> n]
Evm(source, calls, n) ==
    [status |-> "evm", source |-> source, precompiles |-> calls, seq |-> n]

EvmIdle ==
    /\ r_pc = [c \in Callers |-> "idle"]
    /\ r_height = [c \in Callers |-> 0]
    /\ r_evm = [c \in Callers |-> NoEvm]
    /\ consumed = [h \in Heights |-> FALSE]
    /\ resolutions = 0

\* EthEvmConfig::new / with_ingest_dir / with_shared_state; the channel starts empty
InitEvm ==
    /\ ingest_dir \in BOOLEAN
    /\ shared_state \in BOOLEAN
    /\ precompiles_cache = [h \in Heights |-> NoEntry]
    /\ archive \in [ArchivePaths -> FileContents]
    /\ EvmIdle

\* The block ingestor (outside this crate) puts the calls of a height into the channel.
IngestorInserts(height, calls) ==
    /\ shared_state
    /\ precompiles_cache[height] # calls
    /\ precompiles_cache' = [precompiles_cache EXCEPT ![height] = calls]
    /\ consumed' = [consumed EXCEPT ![height] = FALSE]
    /\ UNCHANGED <<ingest_dir, shared_state, archive, r_pc, r_height, r_evm, resolutions>>
    /\ UNCHANGED <<guardVars, dispatchVars, calcVars, pathVars, gasVars, forwardVars>>

\* create_evm from entry through collect_block's channel lookup: the expect on
\* ingest_dir, then (with a shared state) the take under the channel's lock; a
\* hit builds the EVM from the channel's calls.
CreateEvm(c, height) ==
    /\ r_pc[c] \in {"idle", "done", "panicked"}
    /\ resolutions < MaxResolutions
    /\ resolutions' = resolutions + 1
    /\ r_height' = [r_height EXCEPT ![c] = height]
    /\ IF ~ingest_dir
       THEN /\ r_pc' = [r_pc EXCEPT ![c] = "panicked"]
            /\ r_evm' = [r_evm EXCEPT ![c] = PanicEvm(resolutions')]
            /\ UNCHANGED <<precompiles_cache, consumed>>
       ELSE IF shared_state
            THEN LET got == get_locally_sourced_precompiles_for_height(height)
                 IN  /\ precompiles_cache' = got.cache
                     /\ IF got.calls # NoEntry
                        THEN /\ r_pc' = [r_pc EXCEPT ![c] = "done"]
                             /\ r_evm' = [r_evm EXCEPT
                                            ![c] = Evm("channel", got.calls, resolutions')]
                             /\ consumed' = [consumed EXCEPT ![height] = TRUE]
                        ELSE /\ r_pc' = [r_pc EXCEPT ![c] = "collect_s3_block"]
                             /\ r_evm' = [r_evm EXCEPT ![c] = NoEvm]
                             /\ UNCHANGED consumed
            ELSE /\ r_pc' = [r_pc EXCEPT ![c] = "collect_s3_block"]
                 /\ r_evm' = [r_evm EXCEPT ![c] = NoEvm]
                 /\ UNCHANGED <<precompiles_cache, consumed>>
    /\ UNCHANGED <<ingest_dir, shared_state, archive>>
    /\ UNCHANGED <<guardVars, dispatchVars, calcVars, pathVars, gasVars, forwardVars>>

\* collect_s3_block and the rest of create_evm: `.unwrap_or_else(|| panic!(..))`
\* on None, else the EVM built with block.read_precompile_calls.
ReadArchive_SoftFail(c) ==
    /\ r_pc[c] = "collect_s3_block"
    /\ LET block == collect_s3_block(r_height[c])
       IN  IF block = ArithFault
           THEN /\ r_pc' = [r_pc EXCEPT ![c] = "panicked"]
                /\ r_evm' = [r_evm EXCEPT ![c] = PanicEvm(resolutions)]
           ELSE /\ r_pc' = [r_pc EXCEPT ![c] = "done"]
                /\ r_evm' = [r_evm EXCEPT
                      ![c] = Evm("archive", IF block = NoEntry THEN EmptyCalls ELSE block,
                                 resolutions)]
    /\ UNCHANGED <<ingest_dir, shared_state, precompiles_cache, archive, r_height,
                   consumed, resolutions>>
    /\ UNCHANGED <<guardVars, dispatchVars, calcVars, pathVars, gasVars, forwardVars>>
ReadArchive(c) ==
    /\ r_pc[c] = "collect_s3_block"
    /\ LET block == collect_s3_block(r_height[c])
       IN  IF block = ArithFault \/ block = NoEntry
           THEN /\ r_pc' = [r_pc EXCEPT ![c] = "panicked"]
                /\ r_evm' = [r_evm EXCEPT ![c] = PanicEvm(resolutions)]
           ELSE /\ r_pc' = [r_pc EXCEPT ![c] = "done"]
                /\ r_evm' = [r_evm EXCEPT ![c] = Evm("archive", block, resolutions)]
    /\ UNCHANGED <<ingest_dir, shared_state, precompiles_cache, archive, r_height,
                   consumed, resolutions>>
    /\ UNCHANGED <<guardVars, dispatchVars, calcVars, pathVars, gasVars, forwardVars>>

NextEvm ==
    \/ \E h \in Heights, calls \in CallSets : IngestorInserts(h, calls)
    \/ \E c \in Callers, h \in Heights : CreateEvm(c, h)
    \/ \E c \in Callers : ReadArchive(c)

\* =====================================================================
\* Specifications
\* =====================================================================

\* the dispatcher at rest, with the default configuration
DispatchAtRest ==
    /\ overflow_checks = FALSE
    /\ cfg = DefaultTimeoutWrapper
    /\ DispatchIdle

\* the guard at rest, with the default ceiling of DatabaseTimeoutWrapper::new
GuardAtRest ==
    /\ max_concurrent_operations = 100
    /\ active_connections = 0
    /\ total_operations = 0
    /\ timeout_operations = 0
    /\ successful_operations = 0
    /\ op_pc = [p \in Tasks |-> "idle"]
    /\ op_entry = [p \in Tasks |-> "execute_with_timeout"]
    /\ op_result = [p \in Tasks |-> NoResult]
    /\ op_polled = [p \in Tasks |-> FALSE]
    /\ op_released = [p \in Tasks |-> 0]
    /\ attempts = 0

\* the EVM factory at rest, unconfigured
EvmAtRest ==
    /\ ingest_dir = FALSE
    /\ shared_state = FALSE
    /\ precompiles_cache = [h \in Heights |-> NoEntry]
    /\ archive = [p \in ArchivePaths |-> [state |-> "missing", blocks |-> <<>>]]
    /\ EvmIdle

\* calculate_timeout not called
CalcAtRest ==
    /\ t_gas = NoneGas
    /\ t_result = NoDeadline

\* no path computed
PathAtRest ==
    /\ p_height = 0
    /\ p_path = <<>>

\* no block being adjusted
GasAtRest ==
    /\ g_pc = "done"
    /\ g_receipts = <<>>
    /\ g_idx = 1
    /\ original_gas_used = 0
    /\ system_gas_used = 0
    /\ previous_cumulative_gas = 0
    /\ adjusted_gas_used = 0
    /\ g_wrapped = FALSE

\* the forwarder with no request received
ForwardAtRest ==
    /\ f_pc = "idle"
    /\ f_method = "call"
    /\ f_block_number = "None"
    /\ f_result = NoOutcome
    /\ upstream_requests = <<>>
    /\ local_calls = <<>>

InitGuardSpec ==
    InitGuard /\ DispatchAtRest /\ EvmAtRest /\ CalcAtRest /\ PathAtRest /\ GasAtRest /\ ForwardAtRest

SpecGuard == InitGuardSpec /\ [][NextGuard]_vars

\* ---- the guard under a fair scheduler ----
\* the steps of task p that need no new call: the runtime polls a runnable task,
\* the synchronous statements between two awaits run in one poll, and
\* `timeout(self.read_timeout, operation).await` ends at the latest when the
\* timer fires
TaskStep(p) ==
    \/ CheckCanStart(p)
    \/ GuardIncrementActive(p)
    \/ GuardIncrementTotal(p)
    \/ OperationSucceeds(p)
    \/ OperationFails(p)
    \/ ReadTimeoutElapses(p)
    \/ FutureDropped(p)
    \/ DropGuard(p)

\* FairAttempts calls, made through execute_with_timeout (the two entry points
\* differ in the text of their errors only)
NextGuardFair ==
    /\ NextGuard
    /\ attempts' <= FairAttempts
    /\ \A p \in Tasks : op_entry'[p] = "execute_with_timeout"

\* callers are free to call or not; a call once made is carried through
SpecGuardFair ==
    InitGuardSpec /\ [][NextGuardFair]_vars /\ \A p \in Tasks : WF_vars(TaskStep(p))

InitDispatchSpec ==
    GuardAtRest /\ InitDispatch /\ EvmAtRest /\ CalcAtRest /\ PathAtRest /\ GasAtRest /\ ForwardAtRest

SpecDispatch == InitDispatchSpec /\ [][NextDispatch]_vars

\* the dispatcher at rest; the build profile also decides collect_s3_block's arithmetic
InitEvmSpec ==
    /\ GuardAtRest
    /\ overflow_checks \in BOOLEAN
    /\ cfg = DefaultTimeoutWrapper
    /\ DispatchIdle
    /\ CalcAtRest
    /\ PathAtRest
    /\ ForwardAtRest
    /\ GasAtRest
    /\ InitEvm

SpecEvm == InitEvmSpec /\ [][NextEvm]_vars

\* ---- calculate_timeout as a function of the policy and the gas ----

\* rpc_call_timeout and max_timeout_secs a node may be started with (both are
\* plain u64 options, neither is validated against the other)
BaseSecs == {0, 1, 30, 100}
MaxSecs == {0, 1, 20, 100, 300, 3600}

\* gas_limit values on, next to and between the piece boundaries
TimeoutGasValues ==
    {NoneGas, 0, 21000, 999999, 1000000, 1000001, 12000000, 50000000, 50500000,
     99999999, 100000000, 100000001, 100575757, 100575758, 150000000,
     1000000001, 1050000000,
     1999999999, 2000000000, 2000000001, U64Max}

InitCalc ==
    /\ GuardAtRest
    /\ EvmAtRest
    /\ overflow_checks \in BOOLEAN
    /\ cfg \in {[rpc_timeout |-> b, max_local_gas_limit |-> NoneGas,
                 enable_progressive_timeout |-> e, max_timeout |-> m,
                 chunked |-> DefaultChunkedExecutionConfig] :
                    b \in BaseSecs, m \in MaxSecs, e \in BOOLEAN}
    /\ DispatchIdle
    /\ CalcAtRest
    /\ PathAtRest
    /\ ForwardAtRest
    /\ GasAtRest

\* one evaluation of self.calculate_timeout(gas_limit)
CalculateTimeout(gas_limit) ==
    /\ t_gas' = gas_limit
    /\ t_result' = calculate_timeout(gas_limit)
    /\ UNCHANGED <<guardVars, dispatchVars, evmVars, pathVars, gasVars, forwardVars>>

NextCalc == \E gas_limit \in TimeoutGasValues : CalculateTimeout(gas_limit)

SpecTimeout == InitCalc /\ [][NextCalc]_vars

\* ---- collect_s3_block's path computation taken alone ----
\* heights up to PathSpan away from the bucket boundaries, and the largest height
PathSpan == 5
PathHeights ==
    {h \in UNION {(m - PathSpan)..(m + PathSpan) :
                     m \in {0, 1000, 2000, 1000000, 1001000, 2000000}} : h >= 0}
    \cup {U64Max}

InitPath ==
    /\ GuardAtRest
    /\ EvmAtRest
    /\ overflow_checks \in BOOLEAN
    /\ cfg = DefaultTimeoutWrapper
    /\ DispatchIdle
    /\ CalcAtRest
    /\ PathAtRest
    /\ ForwardAtRest
    /\ GasAtRest

\* lines 218-220 of collect_s3_block for one height
ComputeS3Path(height) ==
    /\ p_height' = height
    /\ p_path' = S3Path(height)
    /\ UNCHANGED <<guardVars, dispatchVars, evmVars, calcVars, gasVars, forwardVars>>

NextPath == \E height \in PathHeights : ComputeS3Path(height)

SpecPath == InitPath /\ [][NextPath]_vars

\* ---- system-transaction gas adjustment ----
MaxReceipts == 3
MaxCumulative == 3
MaxBlockGas == 3

\* transaction.receipt of a system transaction: None, or its cumulative_gas_used
ReceiptValues == {NoneGas} \cup 0..MaxCumulative \cup {U64Max}

\* system_txs: the short sequences over ReceiptValues, and the two system
\* transactions of the test block (cumulative 25268 and 205252)
SystemTxs ==
    UNION {[1..n -> ReceiptValues] : n \in 0..MaxReceipts} \cup {<<25268, 205252>>}

\* block.header().gas_used(): small values, the test block's 732929, u64::MAX
BlockGasValues == 0..MaxBlockGas \cup {732929, U64Max}

\* `let mut system_gas_used = 0u64; let mut previous_cumulative_gas = 0u64;`
InitGas ==
    /\ GuardAtRest
    /\ EvmAtRest
    /\ overflow_checks \in BOOLEAN
    /\ cfg = DefaultTimeoutWrapper
    /\ DispatchIdle
    /\ CalcAtRest
    /\ PathAtRest
    /\ ForwardAtRest
    /\ g_pc = "loop"
    /\ g_receipts \in SystemTxs
    /\ g_idx = 1
    /\ original_gas_used \in BlockGasValues
    /\ system_gas_used = 0
    /\ previous_cumulative_gas = 0
    /\ adjusted_gas_used = 0
    /\ g_wrapped = FALSE

\* `let individual_gas_used = receipt.cumulative_gas_used - previous_cumulative_gas;`
individual_gas_used_IsCumulative(cumulative, previous, checks) == cumulative
individual_gas_used(cumulative, previous, checks) == U64Sub(cumulative, previous, checks)

\* one iteration of `for transaction in &system_txs { if let Some(receipt) = .. }`
SystemTxStep ==
    /\ g_pc = "loop"
    /\ g_idx <= Len(g_receipts)
    /\ g_idx' = g_idx + 1
    /\ LET cumulative == g_receipts[g_idx]
       IN  IF cumulative = NoneGas
           THEN UNCHANGED <<g_pc, system_gas_used, previous_cumulative_gas, g_wrapped>>
           ELSE LET individual ==
                        individual_gas_used(cumulative, previous_cumulative_gas,
                                            overflow_checks)
                    total == IF individual = ArithFault THEN ArithFault
                             ELSE U64Add(system_gas_used, individual, overflow_checks)
                IN  IF total = ArithFault
                    THEN /\ g_pc' = "panicked"
                         /\ UNCHANGED <<system_gas_used, previous_cumulative_gas, g_wrapped>>
                    ELSE /\ system_gas_used' = total
                         /\ previous_cumulative_gas' = cumulative
                         /\ g_wrapped' = (\/ g_wrapped
                                          \/ cumulative < previous_cumulative_gas
                                          \/ system_gas_used > U64Max - individual)
                         /\ UNCHANGED g_pc
    /\ UNCHANGED <<g_receipts, original_gas_used, adjusted_gas_used>>
    /\ UNCHANGED <<overflow_checks, cfg, d_pc, d_method, d_gas, d_result, timeout_duration,
                   e_pc, e_outcome, original_gas, total_chunks, chunk_idx, chunk_gas,
                   processed_gas, accumulated, exec_log, delays, completed, exec_value,
                   d_request, exec_args>>
    /\ UNCHANGED <<guardVars, evmVars, calcVars, pathVars, forwardVars>>

\* `let adjusted_gas_used = original_gas_used.saturating_sub(system_gas_used);`
ApplyFix ==
    /\ g_pc = "loop"
    /\ g_idx > Len(g_receipts)
    /\ g_pc' = "done"
    /\ adjusted_gas_used' = IF original_gas_used < system_gas_used
                            THEN 0
                            ELSE original_gas_used - system_gas_used
    /\ UNCHANGED <<g_receipts, g_idx, original_gas_used, system_gas_used,
                   previous_cumulative_gas, g_wrapped>>
    /\ UNCHANGED <<guardVars, dispatchVars, evmVars, calcVars, pathVars, forwardVars>>

NextGas == SystemTxStep \/ ApplyFix

SpecGas == InitGas /\ [][NextGas]_vars

\* ---- CallForwarderExt (src/src/call_forwarder.rs) ----
MaxForwarded == 2

\* jsonrpsee::types::error::INTERNAL_ERROR_CODE
INTERNAL_ERROR_CODE == -32603

\* Option<BlockId>: None, or Some of a tag, a number or a hash
BlockIds ==
    {"None", "latest", "pending", "earliest", "safe", "finalized", "number", "hash"}

\* `block_number.as_ref().map(|b| b.is_latest()).unwrap_or(true)`, with
\* BlockId::is_latest true of the tag `latest` alone
is_latest_AbsentIsLocal(block_number) == block_number = "latest"
is_latest(block_number) ==
    IF block_number = "None" THEN TRUE ELSE block_number = "latest"

\* `block_number.unwrap_or_default()`: BlockId::default() is the tag `latest`
unwrap_or_default(block_number) ==
    IF block_number = "None" THEN "latest" ELSE block_number

\* the JSON-RPC method of the request sent upstream
UpstreamMethod(method) == IF method = "call" THEN "eth_call" ELSE "eth_estimateGas"

\* the `_ =>` arm of the upstream map_err
UpstreamClientError(method) ==
    ErrorObject(INTERNAL_ERROR_CODE,
                IF method = "call" THEN "Failed to call" ELSE "Failed to estimate gas", 0, 0)

\* what call_with_timeout / estimate_gas_with_timeout may return
WrapperOutcomes(method) ==
    {OkOutcome(v) : v \in ResultValues}
    \cup {GasLimitError, DeadlineError(method)}
    \cup {DirectError(method, e) : e \in ExecErrors}

InitForward ==
    /\ GuardAtRest
    /\ EvmAtRest
    /\ overflow_checks \in BOOLEAN
    /\ cfg = DefaultTimeoutWrapper
    /\ DispatchIdle
    /\ CalcAtRest
    /\ PathAtRest
    /\ GasAtRest
    /\ ForwardAtRest

\* CallForwarderExt::call / estimate_gas from entry to the await on the
\* upstream request or on the timeout wrapper
ForwarderCall(method, block_number) ==
    /\ f_pc \in {"idle", "returned"}
    /\ Len(upstream_requests) + Len(local_calls) < MaxForwarded
    /\ f_method' = method
    /\ f_block_number' = block_number
    /\ f_result' = NoOutcome
    /\ IF is_latest(block_number)
       THEN /\ f_pc' = "upstream"
            /\ upstream_requests' =
                  Append(upstream_requests,
                         [method |-> UpstreamMethod(method), block_number |-> block_number])
            /\ UNCHANGED local_calls
       ELSE /\ f_pc' = "local"
            /\ local_calls' =
                  Append(local_calls,
                         [method |-> method,
                          block_number |-> IF method = "call" THEN block_number
                                           ELSE unwrap_or_default(block_number)])
            /\ UNCHANGED upstream_requests
    /\ UNCHANGED <<guardVars, dispatchVars, evmVars, calcVars, pathVars, gasVars>>

\* the upstream node answers with a result
UpstreamResponds(v) ==
    /\ f_pc = "upstream"
    /\ f_pc' = "returned"
    /\ f_result' = OkOutcome(v)
    /\ UNCHANGED <<f_method, f_block_number, upstream_requests, local_calls>>
    /\ UNCHANGED <<guardVars, dispatchVars, evmVars, calcVars, pathVars, gasVars>>

\* `ClientError::Call(e) => e`: the upstream node's own error object
UpstreamCallError(e) ==
    /\ f_pc = "upstream"
    /\ f_pc' = "returned"
    /\ f_result' = ErrorObject(e, "upstream", e, 0)
    /\ UNCHANGED <<f_method, f_block_number, upstream_requests, local_calls>>
    /\ UNCHANGED <<guardVars, dispatchVars, evmVars, calcVars, pathVars, gasVars>>

\* any other ClientError (transport, parse, timeout of the client)
UpstreamClientFails ==
    /\ f_pc = "upstream"
    /\ f_pc' = "returned"
    /\ f_result' = UpstreamClientError(f_method)
    /\ UNCHANGED <<f_method, f_block_number, upstream_requests, local_calls>>
    /\ UNCHANGED <<guardVars, dispatchVars, evmVars, calcVars, pathVars, gasVars>>

\* the timeout wrapper returns; `?` passes its error on
LocalReturns(outcome) ==
    /\ f_pc = "local"
    /\ f_pc' = "returned"
    /\ f_result' = outcome
    /\ UNCHANGED <<f_method, f_block_number, upstream_requests, local_calls>>
    /\ UNCHANGED <<guardVars, dispatchVars, evmVars, calcVars, pathVars, gasVars>>

NextForward ==
    \/ \E method \in Methods, block_number \in BlockIds : ForwarderCall(method, block_number)
    \/ \E v \in ResultValues : UpstreamResponds(v)
    \/ \E e \in ExecErrors : UpstreamCallError(e)
    \/ UpstreamClientFails
    \/ \E outcome \in WrapperOutcomes(f_method) : LocalReturns(outcome)

SpecForward == InitForward /\ [][NextForward]_vars

\* =====================================================================
\* Properties of the dispatcher and the chunk loop
\* =====================================================================

RECURSIVE SumSeq(_)
SumSeq(q) == IF q = <<>> THEN 0 ELSE q[1] + SumSeq(Tail(q))

\* ceil(g / l) over the naturals, l > 0
CeilDiv(g, l) == (g \div l) + (IF g % l = 0 THEN 0 ELSE 1)

\* the call at hand went down the chunked path
ChunkedPath == d_gas # NoneGas /\ d_gas >= config.chunking_threshold

ChunkGasSumsToOriginal ==
    (ChunkedPath /\ e_pc = "finished" /\ total_chunks < config.max_chunks) =>
        /\ Len(exec_log) = total_chunks
        /\ SumSeq(exec_log) = original_gas
        /\ \A i \in 1..(Len(exec_log) - 1) : exec_log[i] = config.chunk_gas_limit
        /\ Len(exec_log) > 0 =>
              exec_log[Len(exec_log)] =
                  original_gas - SumSeq(SubSeq(exec_log, 1, Len(exec_log) - 1))

\* the same statement on the requests whose chunk planning stays inside u64
\* (gas + chunk_gas_limit - 1 does not overflow): there the code meets it
ChunkGasSumsToOriginalInRange ==
    (d_gas # NoneGas /\ d_gas <= U64Max - config.chunk_gas_limit) => ChunkGasSumsToOriginal

\* ---------------------------------------------------------------- C6
\* C6: when ceil(gas / chunk_gas_limit) exceeds max_chunks, the total gas
\* granted over all chunks is clipped to chunk_gas_limit * max_chunks, and no
\* chunk is granted more than chunk_gas_limit.
CappedGasIsClipped ==
    (/\ ChunkedPath
     /\ e_pc \in {"chunk_exec", "chunk_sleep", "finished"}
     /\ config.chunk_gas_limit > 0
     /\ CeilDiv(original_gas, config.chunk_gas_limit) > config.max_chunks) =>
        /\ \A i \in 1..Len(exec_log) : exec_log[i] <= config.chunk_gas_limit
        /\ e_pc = "finished" =>
              SumSeq(exec_log) = config.chunk_gas_limit * config.max_chunks

\* ---------------------------------------------------------------- C7
\* C7: for all gas values and every configuration the number of chunks of a
\* chunked call is min(ceil(gas / chunk_gas_limit), max_chunks); with
\* chunk_gas_limit = 50,000,000 that is 40 chunks for 2,000,000,000 gas and 3
\* chunks for 150,000,000 gas.
ChunkCountIsCappedCeil ==
    (ChunkedPath /\ e_pc \in {"chunk_exec", "chunk_sleep", "finished", "failed", "abandoned"})
       => /\ config.chunk_gas_limit > 0
          /\ total_chunks = Min(CeilDiv(original_gas, config.chunk_gas_limit),
                                config.max_chunks)
          /\ (config.chunk_gas_limit = 50000000 /\ original_gas = 2000000000)
                => total_chunks = 40
          /\ (config.chunk_gas_limit = 50000000 /\ original_gas = 150000000)
                => total_chunks = 3

\* the same statement on the requests whose chunk planning stays inside u64
ChunkCountIsCappedCeilInRange ==
    (d_gas # NoneGas /\ d_gas <= U64Max - config.chunk_gas_limit) => ChunkCountIsCappedCeil

\* ---------------------------------------------------------------- C10
\* C10: the dispatcher races the chosen execution path against the budget: if
\* the budget expires first the caller gets the timeout error and the
\* execution in flight is abandoned (it takes no further step); if the
\* execution completes first, its outcome (success value or execution error)
\* is what the caller gets, never the timeout error.
DeadlineRace ==
    /\ (d_pc = "returned" /\ e_outcome # NoOutcome) =>
          /\ d_result = e_outcome
          /\ d_result # DeadlineError(d_method)
    /\ (d_pc = "returned" /\ d_result = DeadlineError(d_method)) =>
          /\ e_pc = "abandoned"
          /\ e_outcome = NoOutcome
          /\ ~ENABLED EngineStep
    /\ d_pc = "returned" =>
          \/ d_result = GasLimitError
          \/ d_result = DeadlineError(d_method)
          \/ e_outcome # NoOutcome

\* the budget expired while the second chunk of a chunked call was in flight
DeadlineRaceWitness ==
    /\ d_pc = "returned"
    /\ d_result = DeadlineError("call")
    /\ e_pc = "abandoned"
    /\ Len(exec_log) = 2
    /\ total_chunks = 3

\* ---------------------------------------------------------------- C11
\* C11: if the execution of chunk i fails, the chunked operation returns an
\* error naming the failing chunk (the code numbers chunks from 1 in the
\* message), no chunk with a higher index is executed, and no partial result
\* (earlier chunk output or partial estimate sum) is returned.
ChunkFailureAborts ==
    (ChunkedPath /\ e_pc = "failed") =>
        /\ d_pc = "returned"
        /\ d_result.tag = "Err"
        /\ d_result.msg = (IF d_method = "call" THEN "Chunk failed"
                                                ELSE "Chunk estimation failed")
        /\ d_result.chunk = chunk_idx + 1
        /\ d_result.val \in ExecErrors
        /\ Len(exec_log) = chunk_idx + 1
        /\ ~ENABLED EngineStep

\* the second of three chunks of an estimation failed after the first had
\* contributed to the sum
ChunkFailureAbortsWitness ==
    /\ d_method = "estimate"
    /\ e_pc = "failed"
    /\ total_chunks = 3
    /\ chunk_idx = 1
    /\ accumulated > 0
    /\ d_result = ChunkError("estimate", 1, 1)

\* ---------------------------------------------------------------- C15
\* a call_with_timeout / estimate_gas_with_timeout begins with this step
CallStep == d_pc \in {"idle", "returned", "panicked"} /\ dispatchVars' # dispatchVars

\* C15: past the gas-ceiling check, the dispatcher takes the chunked path
\* exactly when the declared gas is present and >= chunking_threshold; in every
\* other case (gas below the threshold, or no declared gas) it makes exactly
\* one direct call, with the request's gas unmodified.
PathSelectionStep ==
    (CallStep /\ d_result' # GasLimitError /\ d_pc' # "panicked") =>
        IF d_gas' # NoneGas /\ d_gas' >= config.chunking_threshold
        THEN \/ e_pc' = "chunk_exec" /\ total_chunks' > 0 /\ exec_log' = <<chunk_gas'>>
             \/ e_pc' = "finished" /\ total_chunks' = 0 /\ exec_log' = <<>>
        ELSE e_pc' = "direct_exec" /\ total_chunks' = 0 /\ exec_log' = <<d_gas'>>

DirectPathExecutesOnce ==
    (d_pc \in {"racing", "returned"} /\ d_result # GasLimitError /\ ~ChunkedPath) =>
        /\ exec_log = <<d_gas>>
        /\ e_pc \in {"direct_exec", "finished", "failed", "abandoned"}
        /\ delays = <<>>

PathSelection == []DirectPathExecutesOnce /\ [][PathSelectionStep]_vars

\* declared gas equal to the threshold: the chunked path, first chunk in flight
PathSelectionWitness ==
    /\ config.chunking_threshold = 2
    /\ config.chunk_gas_limit = 1
    /\ config.max_chunks = 2
    /\ d_gas = 2
    /\ d_pc = "racing"
    /\ e_pc = "chunk_exec"
    /\ exec_log = <<1>>

\* ---------------------------------------------------------------- C16
\* C16: a request with no declared gas passes the gas-ceiling check whatever
\* the ceiling, is not chunked whatever the threshold, and is executed as
\* exactly one direct attempt whose deadline is the base timeout (the budget of
\* 21,000 gas), for every configuration with base_timeout <= max_timeout.
NoGasStep ==
    (CallStep /\ d_gas' = NoneGas /\ cfg.rpc_timeout <= cfg.max_timeout) =>
        /\ d_pc' = "racing"
        /\ e_pc' = "direct_exec"
        /\ exec_log' = <<NoneGas>>
        /\ timeout_duration' = cfg.rpc_timeout

NoGasDirect ==
    (d_gas = NoneGas /\ d_pc \in {"racing", "returned"}
                    /\ cfg.rpc_timeout <= cfg.max_timeout) =>
        /\ d_result # GasLimitError
        /\ exec_log = <<NoneGas>>
        /\ total_chunks = 0
        /\ delays = <<>>
        /\ timeout_duration = cfg.rpc_timeout

ErrorClass(x) ==
    IF x = GasLimitError THEN "gas_ceiling"
    ELSE IF x \in {DeadlineError(m) : m \in Methods} THEN "deadline"
    ELSE IF x.chunk > 0 THEN "chunk"
    ELSE "execution"

\* C20: the errors of rejected and failed dispatcher calls distinguish
\* gas-ceiling rejection, deadline timeout, chunk failure and underlying
\* execution error by kind: two errors returned for different failures carry
\* different error codes.
ErrorsDistinguishedByKind ==
    [][(/\ d_pc = "returned" /\ d_result.tag = "Err"
        /\ d_pc' = "returned" /\ d_result'.tag = "Err"
        /\ ErrorClass(d_result) # ErrorClass(d_result'))
          => d_result.code # d_result'.code]_vars

\* ---------------------------------------------------------------- C21
\* the chunk loop of the call at hand has issued at least one chunk
ChunkLoopStarted ==
    ChunkedPath /\ e_pc \in {"chunk_exec", "chunk_sleep", "finished", "failed", "abandoned"}

\* C21 as stated: within one chunked call the gas granted to successive chunks
\* is monotonically non-decreasing, granted(i) <= granted(i+1) for every pair
\* of consecutive chunks.
ChunkGasNonDecreasing ==
    ChunkLoopStarted =>
        \A i \in 1..(Len(exec_log) - 1) : exec_log[i] <= exec_log[i + 1]

\* C21, as the code has it: every chunk but the last is granted chunk_gas_limit
\* and the last is granted original_gas minus what the earlier chunks got.  The
\* grants are therefore non-increasing when the chunk count is the uncapped
\* ceil(gas / chunk_gas_limit) (the remainder is at most one chunk_gas_limit,
\* and smaller unless the gas is a multiple of it), and non-decreasing when
\* max_chunks capped the count (the remainder is then larger than
\* chunk_gas_limit).
ChunkGasLimitThenRemainder ==
    ChunkLoopStarted =>
        /\ \A i \in 1..Len(exec_log) :
              exec_log[i] = IF i = total_chunks
                            THEN original_gas - (total_chunks - 1) * config.chunk_gas_limit
                            ELSE config.chunk_gas_limit
        /\ total_chunks = CeilDiv(original_gas, config.chunk_gas_limit) =>
              \A i \in 1..(Len(exec_log) - 1) : exec_log[i] >= exec_log[i + 1]
        /\ CeilDiv(original_gas, config.chunk_gas_limit) > config.max_chunks =>
              /\ \A i \in 1..(Len(exec_log) - 1) : exec_log[i] <= exec_log[i + 1]
              /\ (total_chunks > 0 /\ Len(exec_log) = total_chunks) =>
                    exec_log[total_chunks] > config.chunk_gas_limit

\* 3 gas in chunks of 2: the second, last chunk is granted the remainder 1
ChunkGasLimitThenRemainderWitness ==
    /\ config.chunk_gas_limit = 2
    /\ config.max_chunks = 2
    /\ d_gas = 3
    /\ e_pc = "finished"
    /\ exec_log = <<2, 1>>

\* ---------------------------------------------------------------- C25
\* executions handed to eth_api in this call that have not returned
InFlight == Len(exec_log) - completed

ChunkStartsAfterCompletion ==
    (d_pc = "racing" /\ ChunkedPath /\ Len(exec_log') > Len(exec_log)) =>
        /\ Len(exec_log') = Len(exec_log) + 1
        /\ completed' = Len(exec_log)
        /\ chunk_idx' = chunk_idx + 1

AtMostOneChunkInFlight ==
    ChunkedPath =>
        /\ InFlight \in {0, 1}
        /\ e_pc = "chunk_exec" => (InFlight = 1 /\ Len(exec_log) = chunk_idx + 1)
        /\ e_pc \in {"chunk_sleep", "finished", "failed"} => InFlight = 0

\* C25: chunks within one chunked call execute strictly sequentially: the
\* execution of chunk i+1 starts only when the execution of chunk i has
\* returned, and at most one chunk of a call is in flight at any time.
ChunksStrictlySequential == []AtMostOneChunkInFlight /\ [][ChunkStartsAfterCompletion]_vars

\* the third of three chunks is in flight, the first two have returned
ChunksStrictlySequentialWitness ==
    /\ ChunkedPath
    /\ total_chunks = 3
    /\ e_pc = "chunk_exec"
    /\ Len(exec_log) = 3
    /\ completed = 2

\* ---------------------------------------------------------------- C26
\* the step in which the dispatcher surfaces the timeout error of a chunked call
DeadlineStep ==
    (d_pc = "racing" /\ ChunkedPath /\ d_pc' = "returned"
                    /\ d_result' = DeadlineError(d_method)) =>
        /\ e_pc \in {"chunk_exec", "chunk_sleep"}
        /\ e_pc' = "abandoned"
        /\ exec_log' = exec_log
        /\ completed' = completed
        /\ accumulated' = accumulated

ChunkLoopAbandoned ==
    /\ (ChunkedPath /\ d_pc = "returned" /\ d_result = DeadlineError(d_method)) =>
          /\ e_pc = "abandoned"
          /\ Len(exec_log) < total_chunks \/ InFlight = 1
          /\ ~ENABLED EngineStep
    /\ (ChunkedPath /\ e_pc = "abandoned") =>
          /\ d_pc = "returned"
          /\ d_result = DeadlineError(d_method)
          /\ d_result.tag = "Err"
          /\ d_result # OkOutcome(accumulated)
          /\ d_result # OkOutcome(exec_value)

\* C26: when the dispatcher's deadline expires during a chunked call the whole
\* chunk loop is abandoned: once the timeout error has been surfaced no chunk
\* execution of that call starts (no step of the loop remains possible, the
\* chunks not yet issued stay unissued), and what the caller gets is the
\* timeout error, not the result of a chunk that had already completed.
DeadlineAbandonsChunkLoop == []ChunkLoopAbandoned /\ [][DeadlineStep]_vars

\* the budget of a three-chunk estimation expired in the sleep after its first
\* chunk: one estimate had been summed, two chunks were never issued
DeadlineAbandonsChunkLoopWitness ==
    /\ d_method = "estimate"
    /\ total_chunks = 3
    /\ e_pc = "abandoned"
    /\ d_result = DeadlineError("estimate")
    /\ completed = 1
    /\ exec_log = <<50000000>>
    /\ delays = <<50>>
    /\ accumulated = 2

\* ---------------------------------------------------------------- C28
\* a chunk's execution returns Ok: what becomes of the accumulated value
ChunkResultStep ==
    (ChunkedPath /\ e_pc = "chunk_exec" /\ completed' = completed + 1
                 /\ e_pc' # "failed") =>
        /\ exec_value' \in ResultValues
        /\ d_method = "call" => accumulated' = exec_value'
        /\ d_method = "estimate" => accumulated' = accumulated + exec_value'

\* the chunk loop starts from an empty result / a zero sum
ChunkLoopStartsEmpty ==
    (CallStep /\ e_pc' = "chunk_exec") => (accumulated' = 0 /\ completed' = 0)

AllChunksSucceeded ==
    (ChunkedPath /\ e_pc = "finished" /\ total_chunks > 0) =>
        /\ completed = total_chunks
        /\ d_pc = "returned"
        /\ d_result = OkOutcome(accumulated)
        /\ d_method = "call" => d_result = OkOutcome(exec_value)
        /\ d_method = "estimate" =>
              /\ accumulated >= exec_value + (total_chunks - 1)
              /\ accumulated <= exec_value + (total_chunks - 1) * NumResultValues

\* C28: when all chunks succeed, chunked_call returns the result of the final
\* chunk only (each chunk's result replaces the one before), and
\* chunked_estimate_gas returns the sum of the estimates of all executed
\* chunks (each chunk's estimate is added to the running total, which starts
\* at zero).
FinalChunkOrSum ==
    []AllChunksSucceeded /\ [][ChunkResultStep /\ ChunkLoopStartsEmpty]_vars

\* a three-chunk estimation whose chunks estimated 2, 2 and 1 returned 5
FinalChunkOrSumWitness ==
    /\ d_method = "estimate"
    /\ total_chunks = 3
    /\ e_pc = "finished"
    /\ exec_value = 1
    /\ d_result = OkOutcome(5)

\* ---------------------------------------------------------------- C29
\* the sleeps of the call at hand are n sleeps of ms milliseconds each
SleptTimes(n, ms) == delays = [i \in 1..n |-> ms]

\* the number of sleeps the loop has made when it is at chunk chunk_idx
SleepsSoFar ==
    IF e_pc = "chunk_sleep" THEN chunk_idx + 1
    ELSE IF e_pc = "finished" THEN total_chunks - 1
    ELSE chunk_idx

\* C29 as stated: in a chunked call and in a chunked estimation the engine
\* sleeps for chunk_delay after every chunk except the last, before it starts
\* the next chunk, and not after the last: a run of k chunks contains exactly
\* k - 1 delays of length chunk_delay (for chunk_delay = 0, no time is slept).
SleepsChunkDelayBetweenChunks ==
    (ChunkedPath /\ e_pc \in {"chunk_exec", "chunk_sleep", "finished"} /\ total_chunks > 0) =>
        IF config.chunk_delay_ms > 0
        THEN SleptTimes(SleepsSoFar, config.chunk_delay_ms)
        ELSE SumSeq(delays) = 0

\* C29, as the code has it: between two chunks, and not after the last,
\* chunked_call sleeps chunk_delay_ms and chunked_estimate_gas sleeps
\* chunk_delay_ms / 2 (integer division); with chunk_delay_ms = 0 neither
\* sleeps at all.  A run of k chunks contains k - 1 such sleeps.
SleepsBetweenChunks ==
    (ChunkedPath /\ e_pc \in {"chunk_exec", "chunk_sleep", "finished"} /\ total_chunks > 0) =>
        IF config.chunk_delay_ms > 0
        THEN SleptTimes(SleepsSoFar,
                        IF d_method = "call" THEN config.chunk_delay_ms
                                             ELSE config.chunk_delay_ms \div 2)
        ELSE delays = <<>>

\* a three-chunk estimation with chunk_delay_ms = 100 finished after two
\* sleeps of 50 ms
SleepsBetweenChunksWitness ==
    /\ d_method = "estimate"
    /\ config.chunk_delay_ms = 100
    /\ total_chunks = 3
    /\ e_pc = "finished"
    /\ delays = <<50, 50>>

\* ---------------------------------------------------------------- C31
\* the call at hand went down the direct path and handed its execution to eth_api
DirectPath == e_pc \in {"direct_exec"} \/ (e_pc \in {"finished", "failed", "abandoned"} /\ ~ChunkedPath)

\* the chunk loop is running
InChunkLoop == e_pc \in {"chunk_exec", "chunk_sleep"}

\* the most executions one chunked call may issue
ExecutionCeiling ==
    IF config.chunk_gas_limit > 0
    THEN Min(CeilDiv(original_gas, config.chunk_gas_limit), config.max_chunks)
    ELSE 0

\* the steps the chunk loop has left at most: an execution and a sleep for
\* every chunk not yet returned
LoopRank ==
    IF e_pc = "chunk_exec" THEN 2 * (total_chunks - chunk_idx)
    ELSE IF e_pc = "chunk_sleep" THEN 2 * (total_chunks - chunk_idx) - 1
    ELSE 0

ExecutionsBounded ==
    /\ DirectPath => Len(exec_log) = 1 /\ completed <= 1
    /\ (ChunkedPath /\ d_pc # "idle") => /\ Len(exec_log) <= ExecutionCeiling
                                         /\ completed <= Len(exec_log)
    /\ InChunkLoop => /\ Len(exec_log) = chunk_idx + 1
                      /\ chunk_idx < total_chunks
    /\ LoopRank >= 0

\* an execution is issued either by the call itself (the direct one, or chunk 0)
\* or by the loop, for the index following the one that returned
IssuesNextIndexOnly ==
    Len(exec_log') > Len(exec_log) =>
        /\ Len(exec_log') = Len(exec_log) + 1
        /\ \/ CallStep /\ exec_log = <<>>
           \/ /\ ~CallStep
              /\ InChunkLoop
              /\ chunk_idx' = chunk_idx + 1
              /\ SubSeq(exec_log', 1, Len(exec_log)) = exec_log

\* every step of a running loop brings it nearer to its end
LoopAdvances == (InChunkLoop /\ ~CallStep) => LoopRank' < LoopRank

\* C31: a dispatcher call never retries: the direct path hands exactly one
\* execution to eth_api; on the chunked path the executions are issued for
\* strictly increasing chunk indices, one each, so that at most
\* min(ceil(gas / chunk_gas_limit), max_chunks) are issued; and every return of
\* a chunk execution, and every end of a sleep, leaves the loop with strictly
\* fewer steps to go, so that the loop ends when each chunk execution returns.
NeverRetries ==
    []ExecutionsBounded /\ [][IssuesNextIndexOnly /\ LoopAdvances]_vars

\* a chunked call whose count was capped at two ran its two chunks, each once
NeverRetriesWitness ==
    /\ ChunkedPath
    /\ d_pc = "returned"
    /\ e_pc = "finished"
    /\ config.chunk_gas_limit = 1
    /\ config.max_chunks = 2
    /\ d_gas = 5
    /\ Len(exec_log) = 2
    /\ completed = 2

\* ---------------------------------------------------------------- C32
\* every execution of a chunked call so far was handed the call target, the
\* block reference and the overrides the dispatcher received
ChunksCarryOriginalRequest ==
    (ChunkedPath /\ d_pc # "idle") =>
        /\ Len(exec_args) = Len(exec_log)
        /\ \A i \in 1..Len(exec_args) :
              /\ exec_args[i].to = d_request.to
              /\ exec_args[i].block_number = d_request.block_number
              /\ exec_args[i].overrides = d_request.overrides

\* the step that issues a chunk hands eth_api the received request with the
\* chunk's gas, and leaves the received request as it is
ChunkIssuedWithOriginalRequest ==
    (~CallStep /\ Len(exec_log') > Len(exec_log)) =>
        /\ d_request' = d_request
        /\ d_gas' = d_gas
        /\ exec_args' = Append(exec_args, d_request)
        /\ exec_log' = Append(exec_log, chunk_gas')

\* C32: every chunk of a chunked call is executed with the call target, block
\* reference and overrides of the original request; the per-chunk request
\* differs from the original one in its gas only.
OnlyGasDiffersPerChunk ==
    []ChunksCarryOriginalRequest /\ [][ChunkIssuedWithOriginalRequest]_vars

\* a chunked estimation of 5 gas ran two chunks, of 1 and of 4 gas, both with
\* the request as received
OnlyGasDiffersPerChunkWitness ==
    /\ ChunkedPath
    /\ d_method = "estimate"
    /\ d_pc = "returned"
    /\ e_pc = "finished"
    /\ d_gas = 5
    /\ exec_log = <<1, 4>>
    /\ exec_args = <<d_request, d_request>>
    /\ d_request \in Requests("estimate")

\* ---------------------------------------------------------------- C36
\* C36: whenever chunked_call or chunked_estimate_gas returns success on the
\* chunked path, at least one execution was handed to eth_api and returned, and
\* the value returned comes from the executions, for every configuration,
\* max_chunks = 0 and chunking_threshold = 0 included.
ChunkedSuccessHasExecution ==
    (ChunkedPath /\ d_pc = "returned" /\ d_result.tag = "Ok") =>
        /\ Len(exec_log) >= 1
        /\ completed >= 1
        /\ exec_value \in ResultValues
        /\ d_result.val >= exec_value

\* the same statement for the calls planned with at least one chunk
ChunkedSuccessHasExecutionWhenPlanned ==
    total_chunks > 0 => ChunkedSuccessHasExecution

\* ---------------------------------------------------------------- C38
\* the call at hand reached the chunk planning of the engine
ReachedPlanning == ChunkedPath /\ d_pc # "idle" /\ timeout_duration # NoDeadline

\* the last chunk's `original_gas - processed_gas` stays at or above zero
LastChunkInRange ==
    (InChunkLoop /\ chunk_idx = total_chunks - 1) =>
        /\ processed_gas <= original_gas
        /\ e_pc = "chunk_exec" => chunk_gas = original_gas - processed_gas

\* C38: chunk planning performs no arithmetic fault for any gas value and any
\* configuration: gas + chunk_gas_limit - 1 stays inside the word, the divisor
\* chunk_gas_limit is not zero, and the last chunk's original_gas -
\* processed_gas does not go below zero.
ChunkPlanningFaultFree ==
    ReachedPlanning =>
        /\ original_gas <= U64Max - config.chunk_gas_limit
        /\ original_gas + config.chunk_gas_limit >= 1
        /\ config.chunk_gas_limit # 0
        /\ e_pc # "panicked"
        /\ LastChunkInRange

\* the same statement for the plans with a non-zero chunk_gas_limit and the
\* gas values that leave room for it below u64::MAX
ChunkPlanningFaultFreeInRange ==
    (config.chunk_gas_limit > 0 /\ d_gas <= U64Max - config.chunk_gas_limit)
        => ChunkPlanningFaultFree

\* the last chunk's subtraction alone, for every gas and configuration
LastChunkNeverUnderflows == ReachedPlanning => LastChunkInRange

\* =====================================================================
\* Properties of the call forwarder
\* =====================================================================

\* the handler took a request in
ForwarderCallStep == f_pc \in {"idle", "returned"} /\ forwardVars' # forwardVars

\* the block reference is absent or the tag `latest`
AbsentOrLatest(block_number) == block_number \in {"None", "latest"}

\* ---------------------------------------------------------------- C39
RoutedByBlockReference ==
    /\ \A i \in 1..Len(upstream_requests) : AbsentOrLatest(upstream_requests[i].block_number)
    /\ \A i \in 1..Len(local_calls) : ~AbsentOrLatest(local_calls[i].block_number)
    /\ f_pc = "upstream" => AbsentOrLatest(f_block_number)
    /\ f_pc = "local" => ~AbsentOrLatest(f_block_number)

RoutesOnce ==
    /\ ForwarderCallStep =>
          IF AbsentOrLatest(f_block_number')
          THEN /\ f_pc' = "upstream"
               /\ Len(upstream_requests') = Len(upstream_requests) + 1
               /\ local_calls' = local_calls
          ELSE /\ f_pc' = "local"
               /\ Len(local_calls') = Len(local_calls) + 1
               /\ local_calls'[Len(local_calls')] =
                     [method |-> f_method', block_number |-> f_block_number']
               /\ upstream_requests' = upstream_requests
    /\ ~ForwarderCallStep =>
          /\ upstream_requests' = upstream_requests
          /\ local_calls' = local_calls

Moved(c) == <<r_pc'[c], r_height'[c], r_evm'[c]>> # <<r_pc[c], r_height[c], r_evm[c]>>

\* ---------------------------------------------------------------- C8
\* C8: a height present in the in-process channel is returned by the first
\* resolution for that height and removed; a second resolution for the same
\* height, with no re-population in between, gets nothing from the channel and
\* falls through to the archive read.
ChannelConsumedOnFirstRead ==
    [][\A c \in Callers :
          (resolutions' = resolutions + 1 /\ Moved(c) /\ ingest_dir) =>
             LET h == r_height'[c]
             IN  /\ (shared_state /\ precompiles_cache[h] # NoEntry) =>
                       /\ r_pc'[c] = "done"
                       /\ r_evm'[c].status = "evm"
                       /\ r_evm'[c].source = "channel"
                       /\ r_evm'[c].precompiles = precompiles_cache[h]
                       /\ precompiles_cache'[h] = NoEntry
                 /\ consumed[h] =>
                       /\ r_pc'[c] = "collect_s3_block"
                       /\ r_evm'[c].source # "channel"]_vars

\* one caller was served height 1 by the channel, the other then resolved
\* height 1 and is reading the archive
ChannelConsumedWitness ==
    /\ r_evm["a"].status = "evm"
    /\ r_evm["a"].source = "channel"
    /\ r_height["a"] = 1
    /\ r_height["b"] = 1
    /\ r_pc["b"] = "collect_s3_block"
    /\ consumed[1]
    /\ r_evm["a"].seq < resolutions

\* ---------------------------------------------------------------- C33
\* a caller goes to the archive only from a resolution that found nothing in
\* the channel, and is served by the archive only from there
ArchiveOnlyOnMiss ==
    \A c \in Callers :
        /\ (r_pc'[c] = "collect_s3_block" /\ Moved(c)) =>
              /\ resolutions' = resolutions + 1
              /\ shared_state => precompiles_cache[r_height'[c]] = NoEntry
        /\ (r_evm'[c].source = "archive" /\ Moved(c)) =>
              /\ r_pc[c] = "collect_s3_block"
              /\ r_evm'[c].precompiles = collect_s3_block(r_height[c])

\* the archive read changes neither the archive nor the channel
ArchiveReadAltersNothing ==
    (\E c \in Callers : r_pc[c] = "collect_s3_block" /\ Moved(c)) =>
        /\ archive' = archive
        /\ precompiles_cache' = precompiles_cache

\* a resolution changes no entry of the channel but that of its own height
OtherHeightsUntouched ==
    \A c \in Callers :
        (resolutions' = resolutions + 1 /\ Moved(c)) =>
            \A h \in Heights \ {r_height'[c]} :
                precompiles_cache'[h] = precompiles_cache[h]

\* what the archive served is what it holds, so two resolutions of one height
\* served by the archive got the same data
ArchiveServesSameData ==
    \A c \in Callers :
        r_evm[c].source = "archive" =>
            /\ r_evm[c].precompiles = collect_s3_block(r_height[c])
            /\ \A d \in Callers :
                  (r_evm[d].source = "archive" /\ r_height[d] = r_height[c])
                      => r_evm[d].precompiles = r_evm[c].precompiles

\* C33: precompile resolution consults the in-process channel first and reads
\* the archive only on a miss there; the archive read removes and alters
\* nothing, so repeated resolutions of one height served by the archive return
\* the same data; consuming height h from the channel leaves the entries of
\* every other height as they were.
ChannelFirstArchiveReadOnly ==
    /\ []ArchiveServesSameData
    /\ [][ArchiveOnlyOnMiss /\ ArchiveReadAltersNothing /\ OtherHeightsUntouched]_vars

\* height 1 was consumed from the channel, then resolved twice more, by two
\* callers, both served the same data by the archive; the channel still holds
\* its entry for height 0
ChannelFirstArchiveReadOnlyWitness ==
    /\ consumed[1]
    /\ precompiles_cache[1] = NoEntry
    /\ precompiles_cache[0] # NoEntry
    /\ \A c \in Callers : /\ r_height[c] = 1
                           /\ r_evm[c].status = "evm"
                           /\ r_evm[c].source = "archive"
    /\ r_evm["a"].seq # r_evm["b"].seq
    /\ r_evm["a"].precompiles = r_evm["b"].precompiles

\* ---------------------------------------------------------------- C27
\* a step in which caller c is handed calls taken from the in-process channel
ReceivesFromChannel(c) ==
    Moved(c) /\ r_evm'[c].status = "evm" /\ r_evm'[c].source = "channel"

DeliveryRemovesEntry ==
    \A c \in Callers :
        ReceivesFromChannel(c) =>
            LET h == r_height'[c]
            IN  /\ precompiles_cache[h] # NoEntry
                /\ r_evm'[c].precompiles = precompiles_cache[h]
                /\ precompiles_cache'[h] = NoEntry
                /\ consumed'[h]
                /\ \A o \in Callers \ {c} : ~Moved(o)

TakenEntryIsGone == \A h \in Heights : consumed[h] => precompiles_cache[h] = NoEntry

\* C27: when two callers resolve the same height while the in-process channel
\* holds one entry for it, at most one of them receives that entry: the lookup
\* and the removal are one step under the channel's lock, so the step that
\* hands the entry to a caller leaves the channel without it, no other caller
\* is served in that step, and an entry that was taken stays absent until the
\* ingestor inserts again.
OneCallerReceivesEntry == []TakenEntryIsGone /\ [][DeliveryRemovesEntry]_vars

\* both callers resolved height 1 on one entry: caller b got it from the
\* channel, caller a came later and was served by the archive
OneCallerReceivesEntryWitness ==
    /\ r_height["a"] = 1
    /\ r_height["b"] = 1
    /\ r_evm["b"].status = "evm"
    /\ r_evm["b"].source = "channel"
    /\ r_evm["a"].status = "evm"
    /\ r_evm["a"].source = "archive"
    /\ r_evm["b"].seq < r_evm["a"].seq
    /\ consumed[1]

\* ---------------------------------------------------------------- C9
\* the archive holds nothing usable for the height: file missing, broken
\* frame, undecodable payload, or an empty record list
NoArchiveData(height) ==
    LET path == S3Path(height)
    IN  \/ path = <<ArithFault>>
        \/ FileAt(path).state # "ok"
        \/ FileAt(path).blocks = <<>>

\* a create_evm call of caller c that got nothing from the channel has ended
EndedPastChannel(c) ==
    /\ ingest_dir
    /\ r_pc[c] \in {"done", "panicked"}
    /\ r_evm[c].status # "none"
    /\ r_evm[c].source # "channel"

Returned == t_result \notin {NoDeadline, ArithFault}

\* the gas the evaluation was about: an absent gas counts as 21,000
GasOf(g) == IF g = NoneGas THEN 21000 ELSE g

\* TimeoutPolicy of the data model: base_timeout <= max_timeout
PolicyInvariant == cfg.rpc_timeout <= cfg.max_timeout

UpperPieceEvaluated ==
    /\ t_result # NoDeadline
    /\ cfg.enable_progressive_timeout
    /\ GasOf(t_gas) > 100000000

\* C37: calculate_timeout performs no unsigned underflow or overflow for any
\* configurable policy and any gas: above 100,000,000 gas the subtraction
\* max_timeout - 10 x base_timeout is never negative, policies with
\* max_timeout < 10 x base_timeout included.
TimeoutArithmeticFaultFree ==
    /\ t_result # ArithFault
    /\ UpperPieceEvaluated => cfg.max_timeout - 10 * cfg.rpc_timeout >= 0

\* the same statement for the policies with max_timeout >= 10 x base_timeout
TimeoutArithmeticFaultFreeForWidePolicies ==
    cfg.max_timeout >= 10 * cfg.rpc_timeout => TimeoutArithmeticFaultFree

\* ---------------------------------------------------------------- C22
\* the policy of the spec's examples: base 30 s, max 3600 s, scaling enabled
ExamplePolicy ==
    cfg.rpc_timeout = 30 /\ cfg.max_timeout = 3600 /\ cfg.enable_progressive_timeout

MiddlePieceExample ==
    (ExamplePolicy /\ Returned /\ t_gas = 50000000) =>
        /\ 99 * t_result = 30 * (99 + 9 * 49)
        /\ 164 <= t_result /\ t_result <= 165

\* C23, as the code has it: the budget for 50,000,000 gas is
\* 30 x (1 + 9 x 49/99) = 163.63.. truncated to whole seconds, 163 s.
MiddlePieceTruncated ==
    (ExamplePolicy /\ Returned /\ t_gas = 50000000) =>
        /\ t_result = (30 * (99 + 9 * 49)) \div 99
        /\ t_result = 163

MiddlePieceTruncatedWitness ==
    ExamplePolicy /\ t_gas = 50000000 /\ t_result = 163

\* =====================================================================
\* Properties of the archive path
\* =====================================================================

PathComputed == p_path # <<>>

\* ---------------------------------------------------------------- C30
\* C30 as stated: the archive file for height h is addressed by the coarse
\* bucket floor(h / 1,000,000) x 1,000,000 and the fine bucket
\* floor(h / 1,000) x 1,000, for every height h >= 0, h = 0 and the exact
\* multiples of 1,000 and 1,000,000 included.
BucketsAreFloorOfHeight ==
    PathComputed =>
        p_path = <<(p_height \div 1000000) * 1000000, (p_height \div 1000) * 1000, p_height>>

\* C30, as the code has it: the buckets are those of h - 1.  For h >= 1 each
\* bucket is the largest multiple of its width strictly below h: it is the
\* floor bucket of h unless h is an exact multiple of the width, where it is
\* one width lower (h = 1,000 lies in fine bucket 0, h = 1,000,000 in coarse
\* bucket 0).  For h = 0 the subtraction underflows: a panic with overflow
\* checks, and without them the buckets of the largest u64.
BucketsAreFloorOfPredecessor ==
    PathComputed =>
        IF p_height >= 1
        THEN /\ Len(p_path) = 3
             /\ p_path[3] = p_height
             /\ p_path[1] % 1000000 = 0
             /\ p_path[1] < p_height /\ p_height - p_path[1] <= 1000000
             /\ p_path[2] % 1000 = 0
             /\ p_path[2] < p_height /\ p_height - p_path[2] <= 1000
             /\ p_path[1] = IF p_height % 1000000 = 0
                            THEN p_height - 1000000
                            ELSE (p_height \div 1000000) * 1000000
             /\ p_path[2] = IF p_height % 1000 = 0
                            THEN p_height - 1000
                            ELSE (p_height \div 1000) * 1000
        ELSE IF overflow_checks
             THEN p_path = <<ArithFault>>
             ELSE p_path = <<(U64Max \div 1000000) * 1000000, (U64Max \div 1000) * 1000, 0>>

\* height 1,000,000 is read from coarse bucket 0, fine bucket 999,000
BucketsAreFloorOfPredecessorWitness ==
    p_height = 1000000 /\ p_path = <<0, 999000, 1000000>>

\* =====================================================================
\* Properties of the system-transaction gas adjustment
\* =====================================================================

\* the cumulative_gas_used values of the receipts that are present, in order
RECURSIVE Cumulatives(_)
Cumulatives(q) ==
    IF q = <<>> THEN <<>>
    ELSE IF q[1] = NoneGas THEN Cumulatives(Tail(q))
         ELSE <<q[1]>> \o Cumulatives(Tail(q))

\* cumulative_gas_used of the last receipt (0 when there is no receipt)
LastCumulative(q) ==
    LET cs == Cumulatives(q) IN IF cs = <<>> THEN 0 ELSE cs[Len(cs)]

\* the receipts' cumulative_gas_used never falls from one receipt to the next
NonDecreasing(q) ==
    LET cs == Cumulatives(q) IN \A i \in 1..(Len(cs) - 1) : cs[i] <= cs[i + 1]

SaturatingSub(a, b) == IF a < b THEN 0 ELSE a - b

====
